---- MODULE Spec2Model ----
(***************************************************************************)
(* The WebSocket hub of qilin_core (internal/services/websocket): the two  *)
(* membership tables, the hub's command loop, the eviction goroutines it   *)
(* spawns, the stale sweep, shutdown, BroadcastToUser, and the two pumps   *)
(* of every client: the replies, the waits and the read deadline of the    *)
(* read pump, the pings and the returns of the write pump.  Of the chat    *)
(* handler: HandleWebSocket, HandleMessage and the assistant response it   *)
(* streams to the room.  The write pump is also modelled statement by     *)
(* statement (the first write, n := len(c.send), the coalescing loop, the  *)
(* flush), and the hub's introspection queries as operators over the       *)
(* tables.                                                                 *)
(*                                                                         *)
(* Two further programs of the repository share the module, each over its  *)
(* own variables: the browser's useWebSocket hook (connect, the socket's   *)
(* open and close events, the reconnect timer, sendMessage and its queue,  *)
(* disconnect) and VideoGenerator.MonitorVideoGeneration (the select loop  *)
(* over cancellation, the timeout and the poll ticker).                    *)
(*                                                                         *)
(* Granularity.  Every function that takes h.mu.Lock() for its whole body  *)
(* (registerClient, unregisterClient, cleanupStaleConnections, cleanup) is *)
(* one atomic action.  broadcastMessage holds h.mu.RLock() and is modelled *)
(* one loop iteration at a time: while it runs, nothing that needs the     *)
(* write lock can run, everything else (pumps, submitters, the clock) can. *)
(* BroadcastToUser is modelled the same way.  A channel operation is one   *)
(* atomic step; a send on a full channel is a step that is not enabled.    *)
(***************************************************************************)
EXTENDS Integers, Sequences, FiniteSets, TLC

(***************************************************************************)
(* Bounds of the model.                                                    *)
(***************************************************************************)
NumClients == 2        \* connections ever admitted
MaxBroadcasts == 2     \* BroadcastToConversation calls over a run
MaxSweeps == 1         \* firings of cleanupTicker over a run
MaxClockBroadcasts == 1  \* BroadcastToConversation calls over a run with the clock
\* capacity of Client.send; the program uses 256 (sendBufferSize), the
\* model a small capacity so that overflow happens within the bounds
sendBufferSize == 1
\* capacities of Hub.register and Hub.unregister (64 in NewHub) and of
\* Hub.broadcast (256), scaled to the number of clients and of broadcasts
registerBufferSize == 1
unregisterBufferSize == 1
broadcastBufferSize == 2
MaxShutdowns == 2      \* Hub.Shutdown calls over a run
MaxTime == 60          \* units of time the fine clock counts over a run
MaxSockets == 6        \* WebSocket objects the browser client makes over a run
MaxMessages == 2       \* sendMessage calls over a run
MaxHookSockets == 4    \* WebSocket objects over a run in which the application acts
MaxPolls == 3          \* PollVideoStatus calls over a run

(***************************************************************************)
(* Program constants.  Time is counted in units of six seconds, in which   *)
(* the three periods are whole numbers: staleThreshold is five minutes,    *)
(* pongWait sixty seconds, and pingPeriod is computed from pongWait as the *)
(* program computes it.  An age of staleThreshold is not stale: the        *)
(* comparison is strict.                                                   *)
(***************************************************************************)
staleThreshold == 50
pongWait == 10
\* (variant: the probe interval is the whole of pongWait)
pingPeriodIsPongWait == pongWait
pingPeriod == (pongWait * 9) \div 10
\* useWebSocket: the reconnect limit, and the reconnect interval in milliseconds
MAX_RECONNECT_ATTEMPTS == 5
RECONNECT_INTERVAL == 3000

Clients == 1..NumClients
Sockets == 1..MaxSockets
null == 0               \* null, undefined
Nil == 0               \* uuid.Nil
NoClient == 0          \* a nil *Client

\* The userID and conversationID NewClient may be given for client c.  Client
\* 1 is user 1 in room 1; the others are user 1 or 2, in room 1, room 2 or no
\* room (a client 1 without a room is the same with the names of the clients
\* exchanged).
UserIDs(c) == IF c = 1 THEN {1} ELSE {1, 2}
Users == UNION {UserIDs(c) : c \in Clients}
ConversationIDs(c) == IF c = 1 THEN {1} ELSE {Nil, 1, 2}

VARIABLES
    userID,         \* per client: Client.userID
    conversationID, \* per client: Client.conversationID (Nil: no room)
    clients,        \* Hub.clients: userID -> set of clients (a Go map: keys matter)
    conversations,  \* Hub.conversations: conversationID -> set of clients
    closes,         \* per client: how many times close(client.send) was called
    register,       \* Hub.register channel
    unregister,     \* Hub.unregister channel
    broadcast,      \* Hub.broadcast channel
    send,           \* per client: the buffered content of Client.send
    hubPc,          \* "select" | "broadcast" | "stopped": where Hub.Run is
    cur,            \* the BroadcastMessage being delivered
    todo,           \* members the range loop of broadcastMessage has not visited
    hubCtxDone,     \* Hub.ctx cancelled (Shutdown was called)
    goUnregister,   \* per client: spawned `go h.unregisterClient(client)` not yet run
    readPump,       \* per client: "new" | "running" | "exited"
    writePump,      \* per client: "new" | "select", or how WritePump returned:
                    \* "closed" (queue closed), "failed" (write error), "done"
                    \* (context done)
    age,            \* per client: now - lastActivity, capped above the threshold
    panicked,       \* a goroutine panicked (double close, send on closed channel)
    shutdowns,      \* Hub.Shutdown calls so far
    sending,        \* per client: the event its read pump is blocked on in
                    \* Client.SendMessage (queue full, timer not fired), or NoMessage
    sinceDeadline,  \* per client: time since the last SetReadDeadline, up to pongWait
    directTodo,     \* connections the range loop of BroadcastToUser has not visited
    directMsg,      \* the event BroadcastToUser is delivering
    sincePing,      \* per client: time since the ticker of its write pump fired (or was made)
    pings,          \* per client: ping frames written that its peer has not answered
    now,            \* time since the hub was made, up to MaxTime (read by the clock only)
    connClosed,     \* per client: conn.Close and cancel were called (its context is done)
    stream,         \* the goroutine of generateAIResponse: where it is, the client it runs for, the word it is at, assistantMessage.Content
    produced,       \* the events generateAIResponse has submitted, in order (history)
    audience,       \* the members broadcastMessage found when it processed the stream-start event (history)
    unmarshalled,   \* ids of the broadcasts json.Marshal rejected (history)
    writer,         \* per client: the write WritePump has in progress: where it is, the n of its
                    \* coalescing loop, the items written into w; and (history) the content of
                    \* the queue when the write began and when n was taken
    wire,           \* per client: the items WritePump has written with w.Write, in order (history)
    \* ---- the browser client, frontend/src/hooks/useWebSocket.ts ----
    mounted,        \* "no" | "yes" | "gone": the component that uses the hook
    readyState,     \* per socket: "NONE" (not created yet) | "CONNECTING" | "OPEN" | "CLOSING" | "CLOSED"
    wsRef,          \* wsRef.current: a socket, or null
    reconnectTimeoutRef,   \* reconnectTimeoutRef.current: the last timer set, or undefined
    reconnectAttemptsRef,  \* reconnectAttemptsRef.current
    messageQueueRef,       \* messageQueueRef.current
    isConnected,    \* the state isConnected
    timers,         \* the timers set with setTimeout, in order: delay, and whether still pending
    nextMessage,    \* sendMessage calls so far
    sentLog,        \* the ws.send calls with a message of sendMessage, in order (history)
    queuedLog,      \* the messages pushed on the queue, in order (history)
    scheduled,      \* the delays of the reconnects scheduled since the last open (history)
    opened,         \* the sockets whose open event has fired (history)
    disconnected,   \* disconnect() was called and the application has not connected since (history)
    closedByDisconnect,    \* the sockets disconnect() has closed (history)
    \* ---- the video monitor, internal/services/ai/video_generator.go ----
    monitor,        \* MonitorVideoGeneration: "new" | "select", or how it returned: "cancelled" |
                    \* "timeout" | "failed" | "completed"
    videoStatus,    \* video.Status
    ctxDone,        \* the context of the call is cancelled
    timedOut,       \* the 30 minutes of time.After have passed
    polls,          \* PollVideoStatus calls so far
    lastPoll,       \* what the last PollVideoStatus call returned (history)
    callbacks,      \* the video.Status of every updateCallback call, in order (history)
    \* ---- history variables, read only by the properties ----
    nextID,         \* BroadcastToConversation calls so far (the next message is nextID + 1)
    recv,           \* per client: the messages the hub appended to its queue, in order
    dropped,        \* per client: ids the hub dropped because its queue was full
    noop,           \* per client: an unregisterClient call found it absent
    sweeps,         \* cleanupStaleConnections runs so far
    routed          \* per client: its read pump has called the router (HandleMessage)

hubVars == << userID, conversationID, clients, conversations, closes, register, unregister, broadcast,
           send, hubPc, cur, todo, hubCtxDone, goUnregister, readPump,
           writePump, age, panicked, shutdowns, sending, sinceDeadline,
           directTodo, directMsg, nextID, recv, dropped, noop, sweeps, routed,
           sincePing,
           pings,
           now,
           connClosed,
           stream,
           produced,
           audience,
           unmarshalled,
           writer,
           wire >>

hookVars == << mounted, readyState, wsRef, reconnectTimeoutRef, reconnectAttemptsRef,
               messageQueueRef, isConnected, timers, nextMessage, sentLog, queuedLog,
               scheduled, opened, disconnected, closedByDisconnect >>

videoVars == << monitor, videoStatus, ctxDone, timedOut, polls, lastPoll, callbacks >>

vars == << hubVars, hookVars, videoVars >>

(***************************************************************************)
(* Go maps of sets.                                                        *)
(***************************************************************************)
MapAdd(m, k, c) ==
    [x \in DOMAIN m \cup {k} |->
        IF x = k THEN (IF k \in DOMAIN m THEN m[k] ELSE {}) \cup {c} ELSE m[x]]

MapDelete(m, k) == [x \in DOMAIN m \ {k} |-> m[x]]

EmptyMap == [x \in {} |-> {}]

\* The hub's tables and the close count of every send channel, as one value.
Hub == [clients |-> clients, conversations |-> conversations, closes |-> closes]

Registered(h) == UNION {h.clients[u] : u \in DOMAIN h.clients}
InRooms(h) == UNION {h.conversations[r] : r \in DOMAIN h.conversations}

Min(a, b) == IF a < b THEN a ELSE b

(***************************************************************************)
(* The introspection queries, each under h.mu.RLock().                     *)
(***************************************************************************)
\* Hub.IsUserConnected
IsUserConnected(h, u) == u \in DOMAIN h.clients /\ Cardinality(h.clients[u]) > 0

\* Hub.GetConversationClientCount
GetConversationClientCount(h, r) ==
    IF r \in DOMAIN h.conversations THEN Cardinality(h.conversations[r]) ELSE 0

\* `for _, clients := range h.clients { totalClients += len(clients) }`
RECURSIVE TotalClients(_, _)
TotalClients(m, keys) ==
    IF keys = {} THEN 0
    ELSE LET k == CHOOSE x \in keys : TRUE
         IN  Cardinality(m[k]) + TotalClients(m, keys \ {k})

\* (variant: active_conversations is taken from h.clients)
GetStatsOfClients(h) ==
    [total_clients |-> TotalClients(h.clients, DOMAIN h.clients),
     unique_users |-> Cardinality(DOMAIN h.clients),
     active_conversations |-> Cardinality(DOMAIN h.clients)]

\* Hub.GetStats, without the timestamp
GetStats(h) ==
    [total_clients |-> TotalClients(h.clients, DOMAIN h.clients),
     unique_users |-> Cardinality(DOMAIN h.clients),
     active_conversations |-> Cardinality(DOMAIN h.conversations)]

(***************************************************************************)
(* Hub.registerClient                                                      *)
(***************************************************************************)
\* (variant: the uuid.Nil test is missing)
registerClientNoNilTest(h, client) ==
    [h EXCEPT
        !.clients = MapAdd(h.clients, userID[client], client),
        !.conversations = MapAdd(h.conversations, conversationID[client], client)]

registerClient(h, client) ==
    [h EXCEPT
        !.clients = MapAdd(h.clients, userID[client], client),
        !.conversations =
            IF conversationID[client] # Nil
            THEN MapAdd(h.conversations, conversationID[client], client)
            ELSE h.conversations]

(***************************************************************************)
(* Hub.unregisterClient                                                    *)
(***************************************************************************)
\* (variant: close(client.send) is outside the exists test)
unregisterClientAlwaysCloses(h, client) ==
    LET u == userID[client]
        r == conversationID[client]
        exists == u \in DOMAIN h.clients /\ client \in h.clients[u]
        left == h.clients[u] \ {client}
        inRoom == h.conversations[r] \ {client}
    IN  [clients |->
            IF exists
            THEN IF left = {} THEN MapDelete(h.clients, u)
                              ELSE [h.clients EXCEPT ![u] = left]
            ELSE h.clients,
         closes |-> [h.closes EXCEPT ![client] = Min(@ + 1, 2)],
         conversations |->
            IF r # Nil /\ r \in DOMAIN h.conversations
            THEN IF inRoom = {} THEN MapDelete(h.conversations, r)
                                ELSE [h.conversations EXCEPT ![r] = inRoom]
            ELSE h.conversations]

\* (variant: the emptied sets are left in the maps)
unregisterClientKeepsKeys(h, client) ==
    LET u == userID[client]
        r == conversationID[client]
        exists == u \in DOMAIN h.clients /\ client \in h.clients[u]
    IN  [clients |->
            IF exists THEN [h.clients EXCEPT ![u] = @ \ {client}] ELSE h.clients,
         closes |->
            IF exists THEN [h.closes EXCEPT ![client] = Min(@ + 1, 2)]
                      ELSE h.closes,
         conversations |->
            IF r # Nil /\ r \in DOMAIN h.conversations
            THEN [h.conversations EXCEPT ![r] = @ \ {client}]
            ELSE h.conversations]

unregisterClient(h, client) ==
    LET u == userID[client]
        r == conversationID[client]
        exists == u \in DOMAIN h.clients /\ client \in h.clients[u]
        left == h.clients[u] \ {client}
        inRoom == h.conversations[r] \ {client}
    IN  [clients |->
            IF exists
            THEN IF left = {} THEN MapDelete(h.clients, u)
                              ELSE [h.clients EXCEPT ![u] = left]
            ELSE h.clients,
         closes |->
            IF exists THEN [h.closes EXCEPT ![client] = Min(@ + 1, 2)]
                      ELSE h.closes,
         conversations |->
            IF r # Nil /\ r \in DOMAIN h.conversations
            THEN IF inRoom = {} THEN MapDelete(h.conversations, r)
                                ELSE [h.conversations EXCEPT ![r] = inRoom]
            ELSE h.conversations]

(***************************************************************************)
(* Hub.cleanup                                                             *)
(***************************************************************************)
\* (variant: the two maps are not replaced)
cleanupKeepsTables(h) ==
    [h EXCEPT !.closes = [c \in Clients |->
                            IF c \in Registered(h) THEN Min(h.closes[c] + 1, 2)
                                                   ELSE h.closes[c]]]

\* (variant: the maps are replaced, no channel is closed)
cleanupClosesNothing(h) ==
    [clients |-> EmptyMap, conversations |-> EmptyMap, closes |-> h.closes]

cleanup(h) ==
    [clients |-> EmptyMap,
     conversations |-> EmptyMap,
     closes |-> [c \in Clients |->
                    IF c \in Registered(h) THEN Min(h.closes[c] + 1, 2)
                                           ELSE h.closes[c]]]

\* close of a closed channel panics
DoubleClose(h) == \E c \in Clients : h.closes[c] >= 2

(***************************************************************************)
(* Hub.cleanupStaleConnections: the clients it collects in staleClients.   *)
(***************************************************************************)
\* (variant: >= where the code has >)
staleClientsAtThreshold(h, ages) ==
    {c \in Registered(h) : ages[c] >= staleThreshold}

staleClients(h, ages) == {c \in Registered(h) : ages[c] > staleThreshold}

(***************************************************************************)
(* Hub.broadcastMessage, one iteration of `for client := range clients`.   *)
(***************************************************************************)
\* (variant: the exclude test is missing)
ExcludedNever(msg, client) == FALSE

\* the exclude test
Excluded(msg, client) == msg.excl # NoClient /\ client = msg.excl

\* `case client.send <- data` can proceed
CanSend(q) == Len(q) < sendBufferSize

\* what one iteration does with client, whose queue holds q
Visit(msg, client, q) ==
    IF Excluded(msg, client) THEN "continue"
    ELSE IF CanSend(q) THEN "sent"
    ELSE "full"

\* (variant: `return` where the loop has `continue`)
RemainingReturnAtExcluded(rest, client, outcome) ==
    IF outcome = "continue" THEN {} ELSE rest \ {client}

\* (variant: the loop ends at the first full queue)
RemainingBreakAtFull(rest, client, outcome) ==
    IF outcome = "full" THEN {} ELSE rest \ {client}

\* what is left of the range loop after the iteration for client
Remaining(rest, client, outcome) == rest \ {client}

\* no BroadcastMessage
NoMessage == [type |-> "none", id |-> 0, room |-> Nil, user |-> Nil,
              excl |-> NoClient, ok |-> TRUE, msg |-> Nil, body |-> << >>]

\* WritePump has no write in progress
NoWriter == [pc |-> "idle", n |-> 0, buf |-> << >>, began |-> << >>, counted |-> << >>]

\* PollVideoStatus has not been called
NoPoll == [err |-> FALSE, status |-> "none", url |-> FALSE, stored |-> FALSE]

\* generateAIResponse is not running
NoStream == [pc |-> "idle", client |-> NoClient, k |-> 0, content |-> << >>]

Init ==
    /\ userID = [c \in Clients |-> 1]
    /\ conversationID = [c \in Clients |-> Nil]
    /\ clients = EmptyMap
    /\ conversations = EmptyMap
    /\ closes = [c \in Clients |-> 0]
    /\ register = << >>
    /\ unregister = << >>
    /\ broadcast = << >>
    /\ send = [c \in Clients |-> << >>]
    /\ hubPc = "select"
    /\ cur = NoMessage
    /\ todo = {}
    /\ hubCtxDone = FALSE
    /\ goUnregister = [c \in Clients |-> 0]
    /\ readPump = [c \in Clients |-> "new"]
    /\ writePump = [c \in Clients |-> "new"]
    /\ age = [c \in Clients |-> 0]
    /\ panicked = FALSE
    /\ shutdowns = 0
    /\ sending = [c \in Clients |-> NoMessage]
    /\ sinceDeadline = [c \in Clients |-> 0]
    /\ directTodo = {}
    /\ directMsg = NoMessage
    /\ nextID = 0
    /\ recv = [c \in Clients |-> << >>]
    /\ dropped = [c \in Clients |-> {}]
    /\ noop = [c \in Clients |-> FALSE]
    /\ sweeps = 0
    /\ routed = [c \in Clients |-> FALSE]
    /\ unmarshalled = {}
    /\ writer = [c \in Clients |-> NoWriter]
    /\ wire = [c \in Clients |-> << >>]
    /\ audience = {}
    /\ produced = << >>
    /\ stream = NoStream
    /\ connClosed = [c \in Clients |-> FALSE]
    /\ now = 0
    /\ pings = [c \in Clients |-> 0]
    /\ sincePing = [c \in Clients |-> 0]
    /\ monitor = "new"
    /\ videoStatus = "processing"
    /\ ctxDone = FALSE
    /\ timedOut = FALSE
    /\ polls = 0
    /\ lastPoll = NoPoll
    /\ callbacks = << >>
    /\ mounted = "no"
    /\ readyState = [s \in Sockets |-> "NONE"]
    /\ wsRef = null
    /\ reconnectTimeoutRef = null
    /\ reconnectAttemptsRef = 0
    /\ messageQueueRef = << >>
    /\ isConnected = FALSE
    /\ timers = << >>
    /\ nextMessage = 0
    /\ sentLog = << >>
    /\ queuedLog = << >>
    /\ scheduled = << >>
    /\ opened = {}
    /\ disconnected = FALSE
    /\ closedByDisconnect = {}


(***************************************************************************)
(* conn.Close() and cancel(), as the deferred functions of both pumps and  *)
(* Client.Close call them: the connection is closed and the context of the *)
(* client is done.                                                         *)
(***************************************************************************)
\* (variant: the connection is left open)
closeConnNever(closed, c) == closed

closeConn(closed, c) == [closed EXCEPT ![c] = TRUE]

(***************************************************************************)
(* History bookkeeping.                                                    *)
(***************************************************************************)
\* unregisterClient(client) is about to run on h: does it find client absent?
Noop(h, client) ==
    [noop EXCEPT ![client] = @ \/ client \notin Registered(h)]

SetHub(h) ==
    /\ clients' = h.clients
    /\ conversations' = h.conversations
    /\ closes' = h.closes
    /\ panicked' = DoubleClose(h)

(***************************************************************************)
(* Locks.  h.mu is read-locked while broadcastMessage or BroadcastToUser   *)
(* runs its loop; what takes h.mu.Lock() waits for both.                   *)
(***************************************************************************)
\* (variant: the loops take no lock)
ReadLockedNever == FALSE

ReadLocked == hubPc = "broadcast" \/ directTodo # {}

(***************************************************************************)
(* ChatHandler.HandleWebSocket: NewClient, `h.hub.register <- client`, and *)
(* the two pumps are started.  The send blocks while the channel is full:  *)
(* the handler then waits before it starts the pumps.                      *)
(***************************************************************************)
Admit(c) ==
    /\ ~panicked
    /\ readPump[c] = "new"
    /\ Len(register) < registerBufferSize
    /\ \E u \in UserIDs(c), r \in ConversationIDs(c) :
        /\ userID' = [userID EXCEPT ![c] = u]
        /\ conversationID' = [conversationID EXCEPT ![c] = r]
    /\ register' = Append(register, c)
    /\ readPump' = [readPump EXCEPT ![c] = "running"]
    /\ writePump' = [writePump EXCEPT ![c] = "select"]
    /\ UNCHANGED << clients, conversations, closes, panicked >>
    /\ UNCHANGED << unregister, broadcast, send >>
    /\ UNCHANGED << hubPc, cur, todo, hubCtxDone, shutdowns, goUnregister >>
    /\ UNCHANGED << age, sending, sinceDeadline, directTodo, directMsg >>
    /\ UNCHANGED << nextID, recv, dropped, noop, sweeps >>
    /\ UNCHANGED routed
    /\ UNCHANGED << sincePing, pings, now, connClosed, stream, produced, audience, unmarshalled >>
    /\ UNCHANGED << writer, wire >>
    /\ UNCHANGED << hookVars, videoVars >>

(***************************************************************************)
(* Client.ReadPump                                                         *)
(***************************************************************************)
\* The pong handler, run by ReadMessage when the peer's pong arrives:
\* SetReadDeadline(now + pongWait) and updateActivity.
ReadPumpActivity(c) ==
    /\ ~panicked
    /\ readPump[c] = "running" /\ sending[c] = NoMessage
    /\ sinceDeadline[c] < pongWait /\ ~connClosed[c]
    /\ age[c] # 0 \/ sinceDeadline[c] # 0 \/ pings[c] # 0
    /\ age' = [age EXCEPT ![c] = 0]
    /\ sinceDeadline' = [sinceDeadline EXCEPT ![c] = 0]
    /\ pings' = [pings EXCEPT ![c] = 0]
    /\ UNCHANGED << userID, conversationID >>
    /\ UNCHANGED << clients, conversations, closes, panicked >>
    /\ UNCHANGED << register, unregister, broadcast, send >>
    /\ UNCHANGED << hubPc, cur, todo, hubCtxDone, shutdowns, goUnregister >>
    /\ UNCHANGED << readPump, writePump, sending, directTodo, directMsg >>
    /\ UNCHANGED << nextID, recv, dropped, noop, sweeps >>
    /\ UNCHANGED routed
    /\ UNCHANGED << sincePing, now, connClosed, stream, produced, audience, unmarshalled >>
    /\ UNCHANGED << writer, wire >>
    /\ UNCHANGED << hookVars, videoVars >>

\* the events a client enqueues for itself: the reply to a "ping" frame
\* (handleIncomingMessage) and the event of SendError
Pong(c) == [type |-> "pong", id |-> 0, room |-> conversationID[c], user |-> Nil,
            excl |-> NoClient, ok |-> TRUE, msg |-> Nil, body |-> << >>]

ErrorEvent(c) == [type |-> "error", id |-> 0, room |-> conversationID[c],
                  user |-> Nil, excl |-> NoClient, ok |-> TRUE, msg |-> Nil, body |-> << >>]

\* the frames ReadMessage returns that end in Client.SendMessage: a "ping"; a
\* frame json.Unmarshal rejects or of an unknown type ("invalid": SendError,
\* the router is not called); a "message" frame whose router call
\* (HandleMessage) returns an error, the expiry of its 30 s context included
\* ("failed": SendError)
Frames == {"ping", "invalid", "failed"}

Reply(c, frame) == IF frame = "ping" THEN Pong(c) ELSE ErrorEvent(c)

\* Client.SendMessage up to its select.  On a closed channel the send case is
\* ready and panics when chosen; the select can choose `<-c.ctx.Done()`
\* instead once the write pump has cancelled the context, and then returns
\* an error.  With room the event is appended.  With a full queue the select
\* waits.
SendMessage(c, msg) ==
    IF closes[c] > 0
    THEN /\ panicked' \in BOOLEAN
         /\ UNCHANGED << send, sending >>
    ELSE IF CanSend(send[c])
    THEN /\ send' = [send EXCEPT ![c] = Append(@, msg)]
         /\ UNCHANGED << sending, panicked >>
    ELSE /\ sending' = [sending EXCEPT ![c] = msg]
         /\ UNCHANGED << send, panicked >>

\* ReadMessage returns a frame: updateActivity, then the reply.  The read
\* deadline stays as it is: ReadPump sets it before its loop and in the pong
\* handler only.
ReadPumpFrame(c, frame) ==
    /\ ~panicked
    /\ readPump[c] = "running" /\ sending[c] = NoMessage
    /\ sinceDeadline[c] < pongWait /\ ~connClosed[c]
    /\ age' = [age EXCEPT ![c] = 0]
    /\ SendMessage(c, Reply(c, frame))
    /\ UNCHANGED << userID, conversationID >>
    /\ UNCHANGED << clients, conversations, closes >>
    /\ UNCHANGED << register, unregister, broadcast >>
    /\ UNCHANGED << hubPc, cur, todo, hubCtxDone, shutdowns, goUnregister >>
    /\ UNCHANGED << readPump, writePump, sinceDeadline >>
    /\ UNCHANGED << directTodo, directMsg >>
    /\ UNCHANGED << nextID, recv, dropped, noop, sweeps >>
    /\ routed' = [routed EXCEPT ![c] = @ \/ frame = "failed"]
    /\ UNCHANGED << sincePing, pings, now, connClosed, stream, produced, audience, unmarshalled >>
    /\ UNCHANGED << writer, wire >>
    /\ UNCHANGED << hookVars, videoVars >>

\* The select of SendMessage proceeds with `c.send <- data`: the write pump
\* made room, or the channel was closed meanwhile (panic).
SendMessageProceeds(c) ==
    /\ ~panicked
    /\ sending[c] # NoMessage
    /\ closes[c] > 0 \/ CanSend(send[c])
    /\ IF closes[c] > 0
       THEN panicked' = TRUE /\ UNCHANGED send
       ELSE /\ send' = [send EXCEPT ![c] = Append(@, sending[c])]
            /\ UNCHANGED panicked
    /\ sending' = [sending EXCEPT ![c] = NoMessage]
    /\ UNCHANGED << userID, conversationID >>
    /\ UNCHANGED << clients, conversations, closes >>
    /\ UNCHANGED << register, unregister, broadcast >>
    /\ UNCHANGED << hubPc, cur, todo, hubCtxDone, shutdowns, goUnregister >>
    /\ UNCHANGED << readPump, writePump, age, sinceDeadline >>
    /\ UNCHANGED << directTodo, directMsg >>
    /\ UNCHANGED << nextID, recv, dropped, noop, sweeps >>
    /\ UNCHANGED routed
    /\ UNCHANGED << sincePing, pings, now, connClosed, stream, produced, audience, unmarshalled >>
    /\ UNCHANGED << writer, wire >>
    /\ UNCHANGED << hookVars, videoVars >>

\* `case <-time.After(5 * time.Second)` (or `<-c.ctx.Done()`): SendMessage
\* returns an error, the event is lost, the pump reads on.
SendMessageTimeout(c) ==
    /\ ~panicked
    /\ sending[c] # NoMessage
    /\ sending' = [sending EXCEPT ![c] = NoMessage]
    /\ UNCHANGED << userID, conversationID >>
    /\ UNCHANGED << clients, conversations, closes, panicked >>
    /\ UNCHANGED << register, unregister, broadcast, send >>
    /\ UNCHANGED << hubPc, cur, todo, hubCtxDone, shutdowns, goUnregister >>
    /\ UNCHANGED << readPump, writePump, age, sinceDeadline >>
    /\ UNCHANGED << directTodo, directMsg >>
    /\ UNCHANGED << nextID, recv, dropped, noop, sweeps >>
    /\ UNCHANGED routed
    /\ UNCHANGED << sincePing, pings, now, connClosed, stream, produced, audience, unmarshalled >>
    /\ UNCHANGED << writer, wire >>
    /\ UNCHANGED << hookVars, videoVars >>

\* ReadPump returns (read error, expired deadline, cancelled context) and
\* its deferred function runs: `c.hub.unregister <- c`, which blocks while
\* the channel is full, then conn.Close, cancel and HandleDisconnect.
ReadPumpExit(c) ==
    /\ ~panicked
    /\ readPump[c] = "running" /\ sending[c] = NoMessage
    /\ Len(unregister) < unregisterBufferSize
    /\ readPump' = [readPump EXCEPT ![c] = "exited"]
    /\ unregister' = Append(unregister, c)
    /\ UNCHANGED << userID, conversationID >>
    /\ UNCHANGED << clients, conversations, closes, panicked >>
    /\ UNCHANGED << register, broadcast, send >>
    /\ UNCHANGED << hubPc, cur, todo, hubCtxDone, shutdowns, goUnregister >>
    /\ UNCHANGED << writePump, age, sending, sinceDeadline >>
    /\ UNCHANGED << directTodo, directMsg >>
    /\ UNCHANGED << nextID, recv, dropped, noop, sweeps >>
    /\ UNCHANGED routed
    /\ UNCHANGED << sincePing, pings, now, stream, produced, audience, unmarshalled >>
    /\ connClosed' = closeConn(connClosed, c)
    /\ UNCHANGED << writer, wire >>
    /\ UNCHANGED << hookVars, videoVars >>

\* half of pongWait passes at once for every read pump whose deadline has
\* not expired
ReadTick ==
    /\ ~panicked
    /\ \E c \in Clients : readPump[c] = "running" /\ sinceDeadline[c] < pongWait
    /\ sinceDeadline' = [c \in Clients |->
                           IF readPump[c] = "running"
                           THEN Min(sinceDeadline[c] + pongWait \div 2, pongWait)
                           ELSE sinceDeadline[c]]
    /\ UNCHANGED << userID, conversationID >>
    /\ UNCHANGED << clients, conversations, closes, panicked >>
    /\ UNCHANGED << register, unregister, broadcast, send >>
    /\ UNCHANGED << hubPc, cur, todo, hubCtxDone, shutdowns, goUnregister >>
    /\ UNCHANGED << readPump, writePump, age, sending >>
    /\ UNCHANGED << directTodo, directMsg >>
    /\ UNCHANGED << nextID, recv, dropped, noop, sweeps >>
    /\ UNCHANGED routed
    /\ UNCHANGED << sincePing, pings, now, connClosed, stream, produced, audience, unmarshalled >>
    /\ UNCHANGED << writer, wire >>
    /\ UNCHANGED << hookVars, videoVars >>

(***************************************************************************)
(* Client.WritePump: one receive from c.send, `message, ok := <-c.send` or *)
(* one `<-c.send` of the coalescing loop (the loop can be preempted        *)
(* between two receives, so the queue is seen to shrink item by item).     *)
(* A write on a closed connection fails: see WritePumpFails.               *)
(***************************************************************************)
WritePumpRecv(c) ==
    /\ ~panicked
    /\ writePump[c] = "select" /\ ~connClosed[c]
    /\ writer[c].pc = "idle"
    /\ send[c] # << >>
    /\ send' = [send EXCEPT ![c] = Tail(@)]
    /\ UNCHANGED << userID, conversationID >>
    /\ UNCHANGED << clients, conversations, closes, panicked >>
    /\ UNCHANGED << register, unregister, broadcast >>
    /\ UNCHANGED << hubPc, cur, todo, hubCtxDone, shutdowns, goUnregister >>
    /\ UNCHANGED << readPump, writePump, age, sending, sinceDeadline >>
    /\ UNCHANGED << directTodo, directMsg >>
    /\ UNCHANGED << nextID, recv, dropped, noop, sweeps >>
    /\ UNCHANGED routed
    /\ UNCHANGED << sincePing, pings, now, connClosed, stream, produced, audience, unmarshalled >>
    /\ UNCHANGED << writer, wire >>
    /\ UNCHANGED << hookVars, videoVars >>

\* `case <-ticker.C`: the ticker fires every pingPeriod and the pump, idle in
\* its select, writes a ping frame.
WritePumpPing(c) ==
    /\ ~panicked
    /\ writePump[c] = "select" /\ ~connClosed[c]
    /\ writer[c].pc = "idle"
    /\ sincePing[c] = pingPeriod
    /\ sincePing' = [sincePing EXCEPT ![c] = 0]
    /\ pings' = [pings EXCEPT ![c] = @ + 1]
    /\ UNCHANGED << userID, conversationID >>
    /\ UNCHANGED << clients, conversations, closes, panicked >>
    /\ UNCHANGED << register, unregister, broadcast, send >>
    /\ UNCHANGED << hubPc, cur, todo, hubCtxDone, shutdowns, goUnregister >>
    /\ UNCHANGED << readPump, writePump, age, sending, sinceDeadline >>
    /\ UNCHANGED << directTodo, directMsg >>
    /\ UNCHANGED << nextID, recv, dropped, noop, sweeps >>
    /\ UNCHANGED routed
    /\ UNCHANGED << now, connClosed, stream, produced, audience, unmarshalled >>
    /\ UNCHANGED << writer, wire >>
    /\ UNCHANGED << hookVars, videoVars >>

\* `message, ok := <-c.send` with ok false: the queue is closed and empty.
\* The pump writes a close frame and returns; its deferred function stops
\* the ticker, closes the connection and cancels the context.
WritePumpClosed(c) ==
    /\ ~panicked
    /\ writePump[c] = "select"
    /\ writer[c].pc = "idle"
    /\ closes[c] > 0 /\ send[c] = << >>
    /\ writePump' = [writePump EXCEPT ![c] = "closed"]
    /\ connClosed' = closeConn(connClosed, c)
    /\ UNCHANGED << userID, conversationID >>
    /\ UNCHANGED << clients, conversations, closes, panicked >>
    /\ UNCHANGED << register, unregister, broadcast, send >>
    /\ UNCHANGED << hubPc, cur, todo, hubCtxDone, shutdowns, goUnregister >>
    /\ UNCHANGED << readPump, age, sending, sinceDeadline >>
    /\ UNCHANGED << directTodo, directMsg >>
    /\ UNCHANGED << nextID, recv, dropped, noop, sweeps >>
    /\ UNCHANGED routed
    /\ UNCHANGED << sincePing, pings, now, stream, produced, audience, unmarshalled >>
    /\ UNCHANGED << writer, wire >>
    /\ UNCHANGED << hookVars, videoVars >>

\* what WritePump can fail to write: the frame of a message it received
\* (NextWriter or w.Close returns an error), or the ping of its ticker
Writes == {"message", "ping"}

\* A write returns an error, as every write on a closed connection does: the
\* pump returns, and its deferred function runs.  The message it had
\* received is lost.
WritePumpFails(c, what) ==
    /\ ~panicked
    /\ writePump[c] = "select"
    /\ writer[c].pc = "idle"
    /\ IF what = "message"
       THEN send[c] # << >> /\ send' = [send EXCEPT ![c] = Tail(@)]
       ELSE sincePing[c] = pingPeriod /\ UNCHANGED send
    /\ writePump' = [writePump EXCEPT ![c] = "failed"]
    /\ connClosed' = closeConn(connClosed, c)
    /\ UNCHANGED << userID, conversationID >>
    /\ UNCHANGED << clients, conversations, closes, panicked >>
    /\ UNCHANGED << register, unregister, broadcast >>
    /\ UNCHANGED << hubPc, cur, todo, hubCtxDone, shutdowns, goUnregister >>
    /\ UNCHANGED << readPump, age, sending, sinceDeadline >>
    /\ UNCHANGED << directTodo, directMsg >>
    /\ UNCHANGED << nextID, recv, dropped, noop, sweeps >>
    /\ UNCHANGED routed
    /\ UNCHANGED << sincePing, pings, now, stream, produced, audience, unmarshalled >>
    /\ UNCHANGED << writer, wire >>
    /\ UNCHANGED << hookVars, videoVars >>

\* `case <-c.ctx.Done()`: the pump returns.
WritePumpDone(c) ==
    /\ ~panicked
    /\ writePump[c] = "select"
    /\ writer[c].pc = "idle"
    /\ connClosed[c]
    /\ writePump' = [writePump EXCEPT ![c] = "done"]
    /\ connClosed' = closeConn(connClosed, c)
    /\ UNCHANGED << userID, conversationID >>
    /\ UNCHANGED << clients, conversations, closes, panicked >>
    /\ UNCHANGED << register, unregister, broadcast, send >>
    /\ UNCHANGED << hubPc, cur, todo, hubCtxDone, shutdowns, goUnregister >>
    /\ UNCHANGED << readPump, age, sending, sinceDeadline >>
    /\ UNCHANGED << directTodo, directMsg >>
    /\ UNCHANGED << nextID, recv, dropped, noop, sweeps >>
    /\ UNCHANGED routed
    /\ UNCHANGED << sincePing, pings, now, stream, produced, audience, unmarshalled >>
    /\ UNCHANGED << writer, wire >>
    /\ UNCHANGED << hookVars, videoVars >>

(***************************************************************************)
(* Client.WritePump, the write of a message statement by statement.        *)
(***************************************************************************)
\* `message, ok := <-c.send` with ok true, NextWriter without an error and
\* `w.Write(message)`: the write begins.
WritePumpWrite(c) ==
    /\ ~panicked
    /\ writePump[c] = "select" /\ ~connClosed[c]
    /\ writer[c].pc = "idle"
    /\ send[c] # << >>
    /\ send' = [send EXCEPT ![c] = Tail(@)]
    /\ writer' = [writer EXCEPT ![c] =
                    [pc |-> "wrote", n |-> 0, buf |-> << Head(send[c]) >>,
                     began |-> Tail(send[c]), counted |-> << >>]]
    /\ wire' = [wire EXCEPT ![c] = Append(@, Head(send[c]))]
    /\ UNCHANGED << userID, conversationID >>
    /\ UNCHANGED << clients, conversations, closes, panicked >>
    /\ UNCHANGED << register, unregister, broadcast >>
    /\ UNCHANGED << hubPc, cur, todo, hubCtxDone, shutdowns, goUnregister >>
    /\ UNCHANGED << readPump, writePump, age, sending, sinceDeadline >>
    /\ UNCHANGED << directTodo, directMsg >>
    /\ UNCHANGED << nextID, recv, dropped, noop, sweeps >>
    /\ UNCHANGED routed
    /\ UNCHANGED << sincePing, pings, now, connClosed, stream, produced, audience, unmarshalled >>
    /\ UNCHANGED << hookVars, videoVars >>

\* (variant: the loop takes one item more than the queue holds)
QueueLenAndOne(q) == Len(q) + 1

\* len(c.send)
QueueLen(q) == Len(q)

\* `n := len(c.send)`
WritePumpCount(c) ==
    /\ ~panicked
    /\ writer[c].pc = "wrote"
    /\ writer' = [writer EXCEPT ![c].pc = "coalesce", ![c].n = QueueLen(send[c]),
                                ![c].counted = send[c]]
    /\ UNCHANGED << userID, conversationID >>
    /\ UNCHANGED << clients, conversations, closes, panicked >>
    /\ UNCHANGED << register, unregister, broadcast, send >>
    /\ UNCHANGED << hubPc, cur, todo, hubCtxDone, shutdowns, goUnregister >>
    /\ UNCHANGED << readPump, writePump, age, sending, sinceDeadline >>
    /\ UNCHANGED << directTodo, directMsg >>
    /\ UNCHANGED << nextID, recv, dropped, noop, sweeps >>
    /\ UNCHANGED routed
    /\ UNCHANGED << sincePing, pings, now, connClosed, stream, produced, audience, unmarshalled >>
    /\ UNCHANGED wire
    /\ UNCHANGED << hookVars, videoVars >>

\* one iteration of `for i := 0; i < n; i++`: the newline, then
\* `w.Write(<-c.send)`.  The receive waits while the queue is empty and open.
WritePumpCoalesce(c) ==
    /\ ~panicked
    /\ writer[c].pc = "coalesce" /\ writer[c].n > 0
    /\ send[c] # << >>
    /\ send' = [send EXCEPT ![c] = Tail(@)]
    /\ writer' = [writer EXCEPT ![c].n = @ - 1, ![c].buf = Append(@, Head(send[c]))]
    /\ wire' = [wire EXCEPT ![c] = Append(@, Head(send[c]))]
    /\ UNCHANGED << userID, conversationID >>
    /\ UNCHANGED << clients, conversations, closes, panicked >>
    /\ UNCHANGED << register, unregister, broadcast >>
    /\ UNCHANGED << hubPc, cur, todo, hubCtxDone, shutdowns, goUnregister >>
    /\ UNCHANGED << readPump, writePump, age, sending, sinceDeadline >>
    /\ UNCHANGED << directTodo, directMsg >>
    /\ UNCHANGED << nextID, recv, dropped, noop, sweeps >>
    /\ UNCHANGED routed
    /\ UNCHANGED << sincePing, pings, now, connClosed, stream, produced, audience, unmarshalled >>
    /\ UNCHANGED << hookVars, videoVars >>

\* `w.Close()` after the loop: the frame is flushed, or (err true) the flush
\* fails, as it does on a closed connection, and the pump returns through
\* its deferred function.
WritePumpFlush(c, err) ==
    /\ ~panicked
    /\ writer[c].pc = "coalesce" /\ writer[c].n = 0
    /\ connClosed[c] => err
    /\ writer' = [writer EXCEPT ![c] = NoWriter]
    /\ IF err
       THEN /\ writePump' = [writePump EXCEPT ![c] = "failed"]
            /\ connClosed' = closeConn(connClosed, c)
       ELSE UNCHANGED << writePump, connClosed >>
    /\ UNCHANGED << userID, conversationID >>
    /\ UNCHANGED << clients, conversations, closes, panicked >>
    /\ UNCHANGED << register, unregister, broadcast, send >>
    /\ UNCHANGED << hubPc, cur, todo, hubCtxDone, shutdowns, goUnregister >>
    /\ UNCHANGED << readPump, age, sending, sinceDeadline >>
    /\ UNCHANGED << directTodo, directMsg >>
    /\ UNCHANGED << nextID, recv, dropped, noop, sweeps >>
    /\ UNCHANGED routed
    /\ UNCHANGED << sincePing, pings, now, stream, produced, audience, unmarshalled >>
    /\ UNCHANGED wire
    /\ UNCHANGED << hookVars, videoVars >>

(***************************************************************************)
(* Client.Close: cancel and conn.Close.                                    *)
(***************************************************************************)
Close(c) ==
    /\ ~panicked
    /\ readPump[c] # "new"
    /\ ~connClosed[c]
    /\ connClosed' = closeConn(connClosed, c)
    /\ UNCHANGED << userID, conversationID >>
    /\ UNCHANGED << clients, conversations, closes, panicked >>
    /\ UNCHANGED << register, unregister, broadcast, send >>
    /\ UNCHANGED << hubPc, cur, todo, hubCtxDone, shutdowns, goUnregister >>
    /\ UNCHANGED << readPump, writePump, age, sending, sinceDeadline >>
    /\ UNCHANGED << directTodo, directMsg >>
    /\ UNCHANGED << nextID, recv, dropped, noop, sweeps >>
    /\ UNCHANGED routed
    /\ UNCHANGED << sincePing, pings, now, stream, produced, audience, unmarshalled >>
    /\ UNCHANGED << writer, wire >>
    /\ UNCHANGED << hookVars, videoVars >>

(***************************************************************************)
(* The fine clock: one unit of time passes for every client whose pumps    *)
(* run.  A ticker that is due fires before time goes on (its write pump is *)
(* idle in the select), and a peer that answers its probes answers within  *)
(* the unit: no unit passes while a ping is due or unanswered.             *)
(***************************************************************************)
ClockStep ==
    /\ ~panicked
    /\ now < MaxTime
    /\ \E c \in Clients : readPump[c] = "running"
    /\ \A c \in Clients :
        readPump[c] = "running" =>
            /\ sinceDeadline[c] < pongWait
            /\ (writePump[c] = "select" /\ ~connClosed[c]) =>
                    sincePing[c] < pingPeriod /\ pings[c] = 0
    /\ now' = now + 1
    /\ sincePing' = [c \in Clients |->
                       IF readPump[c] = "running"
                       THEN Min(sincePing[c] + 1, pingPeriod)
                       ELSE sincePing[c]]
    /\ sinceDeadline' = [c \in Clients |->
                           IF readPump[c] = "running"
                           THEN Min(sinceDeadline[c] + 1, pongWait)
                           ELSE sinceDeadline[c]]
    /\ age' = [c \in Clients |->
                 IF readPump[c] = "new" THEN 0
                 ELSE Min(age[c] + 1, staleThreshold + 1)]
    /\ UNCHANGED << userID, conversationID >>
    /\ UNCHANGED << clients, conversations, closes, panicked >>
    /\ UNCHANGED << register, unregister, broadcast, send >>
    /\ UNCHANGED << hubPc, cur, todo, hubCtxDone, shutdowns, goUnregister >>
    /\ UNCHANGED << readPump, writePump, sending >>
    /\ UNCHANGED << directTodo, directMsg >>
    /\ UNCHANGED << nextID, recv, dropped, noop, sweeps >>
    /\ UNCHANGED routed
    /\ UNCHANGED << pings, connClosed, stream, produced, audience, unmarshalled >>
    /\ UNCHANGED << writer, wire >>
    /\ UNCHANGED << hookVars, videoVars >>

(***************************************************************************)
(* Hub.BroadcastToConversation, as the router calls it for client c:       *)
(* Client.BroadcastToConversation (no exclusion) and                       *)
(* Client.BroadcastToConversationExceptSelf / SendTypingIndicator          *)
(* (exclude = c).  ok = FALSE is a message json.Marshal rejects.  The send *)
(* on h.broadcast blocks while the channel is full.                        *)
(***************************************************************************)
BroadcastToConversation(c, excl, ok) ==
    /\ ~panicked
    /\ readPump[c] # "new"
    /\ nextID < MaxBroadcasts
    /\ Len(broadcast) < broadcastBufferSize
    /\ nextID' = nextID + 1
    /\ broadcast' = Append(broadcast, [type |-> "broadcast", id |-> nextID + 1,
                                       room |-> conversationID[c], user |-> Nil,
                                       excl |-> excl, ok |-> ok, msg |-> Nil,
                                       body |-> << >>])
    /\ UNCHANGED << userID, conversationID >>
    /\ UNCHANGED << clients, conversations, closes, panicked >>
    /\ UNCHANGED << register, unregister, send >>
    /\ UNCHANGED << hubPc, cur, todo, hubCtxDone, shutdowns, goUnregister >>
    /\ UNCHANGED << readPump, writePump, age, sending, sinceDeadline >>
    /\ UNCHANGED << directTodo, directMsg >>
    /\ UNCHANGED << recv, dropped, noop, sweeps >>
    /\ UNCHANGED routed
    /\ UNCHANGED << sincePing, pings, now, connClosed, stream, produced, audience, unmarshalled >>
    /\ UNCHANGED << writer, wire >>
    /\ UNCHANGED << hookVars, videoVars >>

(***************************************************************************)
(* ChatHandler.HandleMessage and the goroutine it spawns,                  *)
(* generateAIResponse.  messageRepo.Create gives the user message and the  *)
(* assistant message their ids; the response text is Words, and a delta is *)
(* one word with its blank.                                                *)
(***************************************************************************)
UserMessageID == 1
AssistantMessageID == 2
Words == << "w1", "w2" >>

\* models.Message.AppendContent
AppendContent(content, delta) == Append(content, delta)

\* ReadMessage returns a "message" frame and HandleMessage succeeds: the
\* user's message goes to the room except to the sender, and
\* generateAIResponse is spawned.  The send on h.broadcast blocks while the
\* channel is full.
HandleMessage(c) ==
    /\ ~panicked
    /\ readPump[c] = "running" /\ sending[c] = NoMessage
    /\ sinceDeadline[c] < pongWait /\ ~connClosed[c]
    /\ stream = NoStream
    /\ Len(broadcast) < broadcastBufferSize
    /\ age' = [age EXCEPT ![c] = 0]
    /\ routed' = [routed EXCEPT ![c] = TRUE]
    /\ nextID' = nextID + 1
    /\ broadcast' = Append(broadcast,
                           [type |-> "complete", id |-> nextID + 1,
                            room |-> conversationID[c], user |-> Nil,
                            excl |-> c, ok |-> TRUE, msg |-> UserMessageID,
                            body |-> << >>])
    /\ stream' = [pc |-> "create", client |-> c, k |-> 0, content |-> << >>]
    /\ UNCHANGED << userID, conversationID >>
    /\ UNCHANGED << clients, conversations, closes, panicked >>
    /\ UNCHANGED << register, unregister, send >>
    /\ UNCHANGED << hubPc, cur, todo, hubCtxDone, shutdowns, goUnregister >>
    /\ UNCHANGED << readPump, writePump, sending, sinceDeadline >>
    /\ UNCHANGED << directTodo, directMsg >>
    /\ UNCHANGED << recv, dropped, noop, sweeps >>
    /\ UNCHANGED << sincePing, pings, now, connClosed, produced, audience, unmarshalled >>
    /\ UNCHANGED << writer, wire >>
    /\ UNCHANGED << hookVars, videoVars >>

\* h.messageRepo.Create(ctx, assistantMessage).  ctx is the context of
\* handleIncomingMessage, cancelled when HandleMessage has returned: Create
\* can fail, and then the goroutine sends an error event to its client with
\* SendError (whose wait on a full queue ends with the event enqueued or
\* lost, and whose send on a closed queue panics) and returns.
GenerateAIResponseCreate(created) ==
    /\ ~panicked
    /\ stream.pc = "create"
    /\ IF created
       THEN /\ stream' = [stream EXCEPT !.pc = "start"]
            /\ UNCHANGED << send, panicked >>
       ELSE /\ stream' = [stream EXCEPT !.pc = "done"]
            /\ IF closes[stream.client] > 0
               THEN panicked' \in BOOLEAN /\ UNCHANGED send
               ELSE /\ \/ /\ CanSend(send[stream.client])
                          /\ send' = [send EXCEPT ![stream.client] =
                                         Append(@, ErrorEvent(stream.client))]
                       \/ UNCHANGED send
                    /\ UNCHANGED panicked
    /\ UNCHANGED << userID, conversationID >>
    /\ UNCHANGED << clients, conversations, closes >>
    /\ UNCHANGED << register, unregister, broadcast >>
    /\ UNCHANGED << hubPc, cur, todo, hubCtxDone, shutdowns, goUnregister >>
    /\ UNCHANGED << readPump, writePump, age, sending, sinceDeadline >>
    /\ UNCHANGED << directTodo, directMsg >>
    /\ UNCHANGED << nextID, recv, dropped, noop, sweeps >>
    /\ UNCHANGED routed
    /\ UNCHANGED << sincePing, pings, now, connClosed, produced, audience, unmarshalled >>
    /\ UNCHANGED << writer, wire >>
    /\ UNCHANGED << hookVars, videoVars >>

\* (variant: the complete event carries no content)
StreamEventNoContent(st, id) ==
    [type |-> st.pc, id |-> id, room |-> conversationID[st.client],
     user |-> Nil, excl |-> NoClient, ok |-> TRUE, msg |-> AssistantMessageID,
     body |-> IF st.pc = "delta" THEN << Words[st.k] >> ELSE << >>]

\* the event generateAIResponse submits where it is: startMsg, a deltaMsg
\* with Delta the word it is at, or completeMsg with Content
\* assistantMessage.Content
StreamEvent(st, id) ==
    [type |-> st.pc, id |-> id, room |-> conversationID[st.client],
     user |-> Nil, excl |-> NoClient, ok |-> TRUE, msg |-> AssistantMessageID,
     body |-> IF st.pc = "delta" THEN << Words[st.k] >>
              ELSE IF st.pc = "complete" THEN st.content
              ELSE << >>]

\* where generateAIResponse goes after the event: to the next word (after
\* AppendContent of the delta), to the complete event, or to its return
StreamAfter(st) ==
    IF st.pc = "start"
    THEN [st EXCEPT !.pc = IF Words = << >> THEN "complete" ELSE "delta", !.k = 1]
    ELSE IF st.pc = "delta"
    THEN [st EXCEPT !.pc = IF st.k = Len(Words) THEN "complete" ELSE "delta",
                    !.k = IF st.k = Len(Words) THEN st.k ELSE st.k + 1,
                    !.content = AppendContent(st.content, Words[st.k])]
    ELSE [st EXCEPT !.pc = "done"]

\* one client.BroadcastToConversation of generateAIResponse; the send on
\* h.broadcast blocks while the channel is full
GenerateAIResponseStep ==
    /\ ~panicked
    /\ stream.pc \in {"start", "delta", "complete"}
    /\ Len(broadcast) < broadcastBufferSize
    /\ nextID' = nextID + 1
    /\ broadcast' = Append(broadcast, StreamEvent(stream, nextID + 1))
    /\ produced' = Append(produced, StreamEvent(stream, nextID + 1))
    /\ stream' = StreamAfter(stream)
    /\ UNCHANGED << userID, conversationID >>
    /\ UNCHANGED << clients, conversations, closes, panicked >>
    /\ UNCHANGED << register, unregister, send >>
    /\ UNCHANGED << hubPc, cur, todo, hubCtxDone, shutdowns, goUnregister >>
    /\ UNCHANGED << readPump, writePump, age, sending, sinceDeadline >>
    /\ UNCHANGED << directTodo, directMsg >>
    /\ UNCHANGED << recv, dropped, noop, sweeps >>
    /\ UNCHANGED routed
    /\ UNCHANGED << sincePing, pings, now, connClosed, audience, unmarshalled >>
    /\ UNCHANGED << writer, wire >>
    /\ UNCHANGED << hookVars, videoVars >>

(***************************************************************************)
(* Hub.BroadcastToUser, called from any goroutine: up to the range loop,   *)
(* then one iteration per step, under h.mu.RLock().                        *)
(***************************************************************************)
Direct(u) == [type |-> "direct", id |-> 0, room |-> Nil, user |-> u,
              excl |-> NoClient, ok |-> TRUE, msg |-> Nil, body |-> << >>]

\* A call whose message json.Marshal rejects, or for a user without an
\* entry, returns with no effect.
BroadcastToUser(u) ==
    /\ ~panicked
    /\ directTodo = {}
    /\ u \in DOMAIN clients
    /\ directTodo' = clients[u]
    /\ directMsg' = Direct(u)
    /\ UNCHANGED << userID, conversationID >>
    /\ UNCHANGED << clients, conversations, closes, panicked >>
    /\ UNCHANGED << register, unregister, broadcast, send >>
    /\ UNCHANGED << hubPc, cur, todo, hubCtxDone, shutdowns, goUnregister >>
    /\ UNCHANGED << readPump, writePump, age, sending, sinceDeadline >>
    /\ UNCHANGED << nextID, recv, dropped, noop, sweeps >>
    /\ UNCHANGED routed
    /\ UNCHANGED << sincePing, pings, now, connClosed, stream, produced, audience, unmarshalled >>
    /\ UNCHANGED << writer, wire >>
    /\ UNCHANGED << hookVars, videoVars >>

\* One iteration of its range loop: `case client.send <- data`, or
\* `default:`, which logs a warning and nothing else.
BroadcastToUserStep ==
    /\ ~panicked
    /\ directTodo # {}
    /\ \E client \in directTodo :
        /\ IF closes[client] > 0
           THEN panicked' = TRUE /\ UNCHANGED send
           ELSE /\ send' = [send EXCEPT ![client] =
                              IF CanSend(@) THEN Append(@, directMsg) ELSE @]
                /\ UNCHANGED panicked
        /\ directTodo' = directTodo \ {client}
        /\ directMsg' = IF directTodo' = {} THEN NoMessage ELSE directMsg
    /\ UNCHANGED << userID, conversationID >>
    /\ UNCHANGED << clients, conversations, closes >>
    /\ UNCHANGED << register, unregister, broadcast >>
    /\ UNCHANGED << hubPc, cur, todo, hubCtxDone, shutdowns, goUnregister >>
    /\ UNCHANGED << readPump, writePump, age, sending, sinceDeadline >>
    /\ UNCHANGED << nextID, recv, dropped, noop, sweeps >>
    /\ UNCHANGED routed
    /\ UNCHANGED << sincePing, pings, now, connClosed, stream, produced, audience, unmarshalled >>
    /\ UNCHANGED << writer, wire >>
    /\ UNCHANGED << hookVars, videoVars >>

(***************************************************************************)
(* Hub.Run: one case of the select per action.                             *)
(***************************************************************************)
\* case client := <-h.register
HubRegister ==
    /\ ~panicked
    /\ hubPc = "select" /\ ~ReadLocked
    /\ register # << >>
    /\ LET h == registerClient(Hub, Head(register))
       IN  SetHub(h)
    /\ register' = Tail(register)
    /\ UNCHANGED << userID, conversationID >>
    /\ UNCHANGED << unregister, broadcast, send >>
    /\ UNCHANGED << hubPc, cur, todo, hubCtxDone, goUnregister >>
    /\ UNCHANGED << readPump, writePump, age >>
    /\ UNCHANGED << nextID, recv, dropped, noop, sweeps >>
    /\ UNCHANGED << shutdowns, sending, sinceDeadline, directTodo, directMsg >>
    /\ UNCHANGED routed
    /\ UNCHANGED << sincePing, pings, now, connClosed, stream, produced, audience, unmarshalled >>
    /\ UNCHANGED << writer, wire >>
    /\ UNCHANGED << hookVars, videoVars >>

\* case client := <-h.unregister
HubUnregister ==
    /\ ~panicked
    /\ hubPc = "select" /\ ~ReadLocked
    /\ unregister # << >>
    /\ LET c == Head(unregister)
           h == unregisterClient(Hub, c)
       IN  /\ SetHub(h)
           /\ noop' = Noop(Hub, c)
    /\ unregister' = Tail(unregister)
    /\ UNCHANGED << userID, conversationID >>
    /\ UNCHANGED << register, broadcast, send >>
    /\ UNCHANGED << hubPc, cur, todo, hubCtxDone, goUnregister >>
    /\ UNCHANGED << readPump, writePump, age >>
    /\ UNCHANGED << nextID, recv, dropped, sweeps >>
    /\ UNCHANGED << shutdowns, sending, sinceDeadline, directTodo, directMsg >>
    /\ UNCHANGED routed
    /\ UNCHANGED << sincePing, pings, now, connClosed, stream, produced, audience, unmarshalled >>
    /\ UNCHANGED << writer, wire >>
    /\ UNCHANGED << hookVars, videoVars >>

\* the clients broadcastMessage ranges over: none when json.Marshal fails,
\* none when the room has no entry, else h.conversations[ConversationID]
\* (variant: the clients whose register command waits are added)
SnapshotWithWaiting(h, m) ==
    IF m.ok
    THEN (IF m.room \in DOMAIN h.conversations THEN h.conversations[m.room] ELSE {})
         \cup {c \in Clients : c \in {register[k] : k \in DOMAIN register}
                                /\ conversationID[c] = m.room}
    ELSE {}

\* (variant: every registered client is ranged over)
SnapshotEveryone(h, m) == IF m.ok THEN Registered(h) ELSE {}

\* (variant: the error of json.Marshal is not tested)
SnapshotIgnoresMarshal(h, m) ==
    IF m.room \in DOMAIN h.conversations THEN h.conversations[m.room] ELSE {}

Snapshot(h, m) ==
    IF m.ok /\ m.room \in DOMAIN h.conversations
    THEN h.conversations[m.room]
    ELSE {}

\* case message := <-h.broadcast: broadcastMessage up to the range loop.
\* A message that does not marshal, or a room without an entry, ends it.
HubBroadcast ==
    /\ ~panicked
    /\ hubPc = "select"
    /\ broadcast # << >>
    /\ LET m == Head(broadcast)
           snapshot == Snapshot(Hub, m)
       IN  /\ cur' = IF snapshot = {} THEN NoMessage ELSE m
           /\ todo' = snapshot
           /\ hubPc' = IF snapshot = {} THEN "select" ELSE "broadcast"
           /\ audience' = IF m.type = "start" THEN snapshot ELSE audience
           /\ unmarshalled' = IF m.ok THEN unmarshalled ELSE unmarshalled \cup {m.id}
    /\ broadcast' = Tail(broadcast)
    /\ UNCHANGED << userID, conversationID >>
    /\ UNCHANGED << clients, conversations, closes, panicked >>
    /\ UNCHANGED << register, unregister, send >>
    /\ UNCHANGED << hubCtxDone, goUnregister >>
    /\ UNCHANGED << readPump, writePump, age >>
    /\ UNCHANGED << nextID, recv, dropped, noop, sweeps >>
    /\ UNCHANGED << shutdowns, sending, sinceDeadline, directTodo, directMsg >>
    /\ UNCHANGED routed
    /\ UNCHANGED << sincePing, pings, now, connClosed, stream, produced >>
    /\ UNCHANGED << writer, wire >>
    /\ UNCHANGED << hookVars, videoVars >>

\* One iteration of the range loop (a Go map is ranged over in any order);
\* after the last one broadcastMessage returns.  A send on a closed channel
\* panics, also in a select with a default case.
HubBroadcastStep ==
    /\ ~panicked
    /\ hubPc = "broadcast"
    /\ \E client \in todo :
        LET outcome == Visit(cur, client, send[client])
        IN  /\ CASE outcome = "continue" ->
                      UNCHANGED << send, recv, dropped, goUnregister, panicked >>
                 [] outcome # "continue" /\ closes[client] > 0 ->
                      /\ panicked' = TRUE
                      /\ UNCHANGED << send, recv, dropped, goUnregister >>
                 [] outcome = "sent" /\ closes[client] = 0 ->
                      /\ send' = [send EXCEPT ![client] = Append(@, cur)]
                      /\ recv' = [recv EXCEPT ![client] = Append(@, cur)]
                      /\ UNCHANGED << dropped, goUnregister, panicked >>
                 [] outcome = "full" /\ closes[client] = 0 ->
                      /\ dropped' = [dropped EXCEPT ![client] = @ \cup {cur.id}]
                      /\ goUnregister' = [goUnregister EXCEPT ![client] = @ + 1]
                      /\ UNCHANGED << send, recv, panicked >>
            /\ todo' = Remaining(todo, client, outcome)
            /\ hubPc' = IF todo' = {} THEN "select" ELSE "broadcast"
            /\ cur' = IF todo' = {} THEN NoMessage ELSE cur
    /\ UNCHANGED << userID, conversationID >>
    /\ UNCHANGED << clients, conversations, closes >>
    /\ UNCHANGED << register, unregister, broadcast >>
    /\ UNCHANGED << hubCtxDone >>
    /\ UNCHANGED << readPump, writePump, age >>
    /\ UNCHANGED << nextID, noop, sweeps >>
    /\ UNCHANGED << shutdowns, sending, sinceDeadline, directTodo, directMsg >>
    /\ UNCHANGED routed
    /\ UNCHANGED << sincePing, pings, now, connClosed, stream, produced, audience, unmarshalled >>
    /\ UNCHANGED << writer, wire >>
    /\ UNCHANGED << hookVars, videoVars >>

\* case <-cleanupTicker.C: cleanupStaleConnections.  It reads
\* client.lastActivity without Client.mu, racing with updateActivity: the
\* comparison uses the monotonic reading of the value, one word, so the read
\* yields the value before or after the update, as the two orders of HubSweep
\* and ReadPumpActivity do.
HubSweep ==
    /\ ~panicked
    /\ hubPc = "select" /\ ~ReadLocked
    /\ sweeps < MaxSweeps
    /\ sweeps' = sweeps + 1
    /\ goUnregister' = [c \in Clients |->
                          IF c \in staleClients(Hub, age)
                          THEN goUnregister[c] + 1 ELSE goUnregister[c]]
    /\ UNCHANGED << userID, conversationID >>
    /\ UNCHANGED << clients, conversations, closes, panicked >>
    /\ UNCHANGED << register, unregister, broadcast, send >>
    /\ UNCHANGED << hubPc, cur, todo, hubCtxDone >>
    /\ UNCHANGED << readPump, writePump, age >>
    /\ UNCHANGED << nextID, recv, dropped, noop >>
    /\ UNCHANGED << shutdowns, sending, sinceDeadline, directTodo, directMsg >>
    /\ UNCHANGED routed
    /\ UNCHANGED << sincePing, pings, now, connClosed, stream, produced, audience, unmarshalled >>
    /\ UNCHANGED << writer, wire >>
    /\ UNCHANGED << hookVars, videoVars >>

\* case <-h.ctx.Done(): Run returns and its deferred cleanup runs.
HubStop ==
    /\ ~panicked
    /\ hubPc = "select" /\ ~ReadLocked
    /\ hubCtxDone
    /\ hubPc' = "stopped"
    /\ SetHub(cleanup(Hub))
    /\ UNCHANGED << userID, conversationID >>
    /\ UNCHANGED << register, unregister, broadcast, send >>
    /\ UNCHANGED << cur, todo, hubCtxDone, goUnregister >>
    /\ UNCHANGED << readPump, writePump, age >>
    /\ UNCHANGED << nextID, recv, dropped, noop, sweeps >>
    /\ UNCHANGED << shutdowns, sending, sinceDeadline, directTodo, directMsg >>
    /\ UNCHANGED routed
    /\ UNCHANGED << sincePing, pings, now, connClosed, stream, produced, audience, unmarshalled >>
    /\ UNCHANGED << writer, wire >>
    /\ UNCHANGED << hookVars, videoVars >>

(***************************************************************************)
(* Hub.Shutdown                                                            *)
(***************************************************************************)
\* h.cancel(): cancelling a cancelled context does nothing.
Shutdown ==
    /\ ~panicked
    /\ shutdowns < MaxShutdowns
    /\ shutdowns' = shutdowns + 1
    /\ hubCtxDone' = TRUE
    /\ UNCHANGED << userID, conversationID >>
    /\ UNCHANGED << clients, conversations, closes, panicked >>
    /\ UNCHANGED << register, unregister, broadcast, send >>
    /\ UNCHANGED << hubPc, cur, todo, goUnregister >>
    /\ UNCHANGED << readPump, writePump, age >>
    /\ UNCHANGED << nextID, recv, dropped, noop, sweeps >>
    /\ UNCHANGED << sending, sinceDeadline, directTodo, directMsg >>
    /\ UNCHANGED routed
    /\ UNCHANGED << sincePing, pings, now, connClosed, stream, produced, audience, unmarshalled >>
    /\ UNCHANGED << writer, wire >>
    /\ UNCHANGED << hookVars, videoVars >>

(***************************************************************************)
(* A goroutine spawned by `go h.unregisterClient(client)` (by an overflow  *)
(* in broadcastMessage or by the sweep) gets the write lock and runs.  It  *)
(* cannot while the read lock is held.                                     *)
(***************************************************************************)
GoUnregister(c) ==
    /\ ~panicked
    /\ goUnregister[c] > 0
    /\ ~ReadLocked
    /\ goUnregister' = [goUnregister EXCEPT ![c] = @ - 1]
    /\ SetHub(unregisterClient(Hub, c))
    /\ noop' = Noop(Hub, c)
    /\ UNCHANGED << userID, conversationID >>
    /\ UNCHANGED << register, unregister, broadcast, send >>
    /\ UNCHANGED << hubPc, cur, todo, hubCtxDone >>
    /\ UNCHANGED << readPump, writePump, age >>
    /\ UNCHANGED << nextID, recv, dropped, sweeps >>
    /\ UNCHANGED << shutdowns, sending, sinceDeadline, directTodo, directMsg >>
    /\ UNCHANGED routed
    /\ UNCHANGED << sincePing, pings, now, connClosed, stream, produced, audience, unmarshalled >>
    /\ UNCHANGED << writer, wire >>
    /\ UNCHANGED << hookVars, videoVars >>

(***************************************************************************)
(* staleThreshold passes at once for every client that exists (ages above  *)
(* the threshold are all alike and are kept as staleThreshold + 1).        *)
(***************************************************************************)
Tick ==
    /\ ~panicked
    /\ \E c \in Clients : readPump[c] # "new" /\ age[c] <= staleThreshold
    /\ age' = [c \in Clients |->
                 IF readPump[c] = "new" THEN 0
                 ELSE Min(age[c] + staleThreshold, staleThreshold + 1)]
    /\ UNCHANGED << userID, conversationID >>
    /\ UNCHANGED << clients, conversations, closes, panicked >>
    /\ UNCHANGED << register, unregister, broadcast, send >>
    /\ UNCHANGED << hubPc, cur, todo, hubCtxDone, goUnregister >>
    /\ UNCHANGED << readPump, writePump >>
    /\ UNCHANGED << nextID, recv, dropped, noop, sweeps >>
    /\ UNCHANGED << shutdowns, sending, sinceDeadline, directTodo, directMsg >>
    /\ UNCHANGED routed
    /\ UNCHANGED << sincePing, pings, now, connClosed, stream, produced, audience, unmarshalled >>
    /\ UNCHANGED << writer, wire >>
    /\ UNCHANGED << hookVars, videoVars >>

(***************************************************************************)
(* The browser client, useWebSocket.  JavaScript runs one handler at a     *)
(* time: every callback (an event handler of a socket, a timer, a call of  *)
(* the application) is one atomic action.  A socket keeps its handlers     *)
(* when wsRef no longer points to it.                                      *)
(***************************************************************************)
\* WebSocket objects made so far; they are numbered in the order of `new`
Created == Cardinality({s \in Sockets : readyState[s] # "NONE"})

\* wsRef.current?.readyState === WebSocket.OPEN
IsOpen(ref) == ref # null /\ readyState[ref] = "OPEN"

\* connect(): nothing with an open socket in wsRef; otherwise a new socket,
\* which wsRef then points to
connect ==
    IF IsOpen(wsRef)
    THEN UNCHANGED << readyState, wsRef >>
    ELSE /\ Created < MaxSockets
         /\ readyState' = [readyState EXCEPT ![Created + 1] = "CONNECTING"]
         /\ wsRef' = Created + 1

\* the effect of the hook runs: connect on mount
Mount ==
    /\ mounted = "no"
    /\ mounted' = "yes"
    /\ connect
    /\ UNCHANGED << reconnectTimeoutRef, reconnectAttemptsRef, messageQueueRef >>
    /\ UNCHANGED << isConnected, timers, nextMessage, sentLog, queuedLog >>
    /\ UNCHANGED << scheduled, opened, disconnected, closedByDisconnect >>
    /\ UNCHANGED << hubVars, videoVars >>

\* (variant: `if` where onopen has `while`: one queued message is sent)
DrainOne(q) == IF q = << >> THEN << >> ELSE << Head(q) >>

\* `while (messageQueueRef.current.length > 0)`: the messages ws.send is
\* called with, in order
Drain(q) == q

\* ws.onopen of socket s
onopen(s) ==
    /\ readyState[s] = "CONNECTING"
    /\ readyState' = [readyState EXCEPT ![s] = "OPEN"]
    /\ isConnected' = TRUE
    /\ reconnectAttemptsRef' = 0
    /\ LET out == Drain(messageQueueRef)
       IN  /\ sentLog' = sentLog \o [k \in DOMAIN out |-> [message |-> out[k], socket |-> s]]
           /\ messageQueueRef' = SubSeq(messageQueueRef, Len(out) + 1, Len(messageQueueRef))
    /\ scheduled' = << >>
    /\ opened' = opened \cup {s}
    /\ UNCHANGED << mounted, wsRef, reconnectTimeoutRef, timers, nextMessage >>
    /\ UNCHANGED << queuedLog, disconnected, closedByDisconnect >>
    /\ UNCHANGED << hubVars, videoVars >>

\* (variant: the test admits one attempt more)
CanReconnectAtLimit(attempts) == attempts <= MAX_RECONNECT_ATTEMPTS

\* reconnectAttemptsRef.current < MAX_RECONNECT_ATTEMPTS
CanReconnect(attempts) == attempts < MAX_RECONNECT_ATTEMPTS

\* ws.onclose of socket s: the connection failed, was lost, or was closed
\* from either side
onclose(s) ==
    /\ readyState[s] \in {"CONNECTING", "OPEN", "CLOSING"}
    /\ readyState' = [readyState EXCEPT ![s] = "CLOSED"]
    /\ isConnected' = FALSE
    /\ wsRef' = null
    /\ IF CanReconnect(reconnectAttemptsRef)
       THEN /\ reconnectAttemptsRef' = reconnectAttemptsRef + 1
            /\ timers' = Append(timers, [delay |-> RECONNECT_INTERVAL * reconnectAttemptsRef',
                                         pending |-> TRUE])
            /\ reconnectTimeoutRef' = Len(timers')
            /\ scheduled' = Append(scheduled, RECONNECT_INTERVAL * reconnectAttemptsRef')
       ELSE UNCHANGED << reconnectAttemptsRef, timers, reconnectTimeoutRef, scheduled >>
    /\ UNCHANGED << mounted, messageQueueRef, nextMessage, sentLog, queuedLog >>
    /\ UNCHANGED << opened, disconnected, closedByDisconnect >>
    /\ UNCHANGED << hubVars, videoVars >>

\* the callback of setTimeout: connect()
timeout(t) ==
    /\ t \in DOMAIN timers /\ timers[t].pending
    /\ timers' = [timers EXCEPT ![t].pending = FALSE]
    /\ connect
    /\ UNCHANGED << mounted, reconnectTimeoutRef, reconnectAttemptsRef, messageQueueRef >>
    /\ UNCHANGED << isConnected, nextMessage, sentLog, queuedLog >>
    /\ UNCHANGED << scheduled, opened, disconnected, closedByDisconnect >>
    /\ UNCHANGED << hubVars, videoVars >>

\* sendMessage(content), called by the application
sendMessage ==
    /\ mounted = "yes"
    /\ nextMessage < MaxMessages
    /\ nextMessage' = nextMessage + 1
    /\ IF IsOpen(wsRef)
       THEN /\ sentLog' = Append(sentLog, [message |-> nextMessage', socket |-> wsRef])
            /\ UNCHANGED << messageQueueRef, queuedLog, readyState, wsRef, disconnected >>
       ELSE /\ messageQueueRef' = Append(messageQueueRef, nextMessage')
            /\ queuedLog' = Append(queuedLog, nextMessage')
            /\ connect
            /\ disconnected' = FALSE
            /\ UNCHANGED sentLog
    /\ UNCHANGED << mounted, reconnectTimeoutRef, reconnectAttemptsRef >>
    /\ UNCHANGED << isConnected, timers, scheduled, opened, closedByDisconnect >>
    /\ UNCHANGED << hubVars, videoVars >>

\* disconnect(), called by the application or (unmount) by the cleanup of
\* the effect.  close() starts the closing handshake; the close event comes
\* later.
disconnect(unmount) ==
    /\ mounted = "yes"
    /\ mounted' = IF unmount THEN "gone" ELSE "yes"
    /\ timers' = IF reconnectTimeoutRef # null
                 THEN [timers EXCEPT ![reconnectTimeoutRef].pending = FALSE]
                 ELSE timers
    /\ IF wsRef # null
       THEN /\ readyState' = [readyState EXCEPT ![wsRef] =
                                IF @ \in {"CONNECTING", "OPEN"} THEN "CLOSING" ELSE @]
            /\ closedByDisconnect' = closedByDisconnect \cup {wsRef}
       ELSE UNCHANGED << readyState, closedByDisconnect >>
    /\ wsRef' = null
    /\ isConnected' = FALSE
    /\ disconnected' = TRUE
    /\ UNCHANGED << reconnectTimeoutRef, reconnectAttemptsRef, messageQueueRef >>
    /\ UNCHANGED << nextMessage, sentLog, queuedLog, scheduled, opened >>
    /\ UNCHANGED << hubVars, videoVars >>

(***************************************************************************)
(* VideoGenerator.MonitorVideoGeneration.  The methods of models.Video are *)
(* taken by what their names and their uses say: MarkFailed and            *)
(* MarkCompleted set the status, UpdateProgress copies the status of the   *)
(* job.  The select takes any case that is ready.                          *)
(***************************************************************************)
\* the statuses the external job reports
JobStatuses == {"processing", "completed", "failed"}

\* what one PollVideoStatus call can return: an error, or a job with its
\* status and with or without a video URL; and whether downloadAndStoreVideo
\* then succeeds
PollResults ==
    [err : BOOLEAN, status : JobStatuses, url : BOOLEAN, stored : BOOLEAN]

\* video.UpdateProgress(job.Status, job.Progress)
UpdateProgress(status) == status

\* video.MarkFailed(...), video.MarkCompleted()
MarkFailed == "failed"
MarkCompleted == "completed"

\* the video is in a terminal state
Terminal(status) == status \in {"completed", "failed"}

\* `job.Status == "completed" && job.VideoURL != ""`
EndsOnCompleted(job) == job.status = "completed" /\ job.url

\* the call begins: the ticker and the timeout are made
MonitorStart ==
    /\ monitor = "new"
    /\ monitor' = "select"
    /\ UNCHANGED << videoStatus, ctxDone, timedOut, polls, lastPoll, callbacks >>
    /\ UNCHANGED << hubVars, hookVars >>

\* the caller cancels the context
Cancel ==
    /\ ~ctxDone
    /\ ctxDone' = TRUE
    /\ UNCHANGED << monitor, videoStatus, timedOut, polls, lastPoll, callbacks >>
    /\ UNCHANGED << hubVars, hookVars >>

\* thirty minutes have passed since the call began
TimePasses ==
    /\ monitor = "select" /\ ~timedOut
    /\ timedOut' = TRUE
    /\ UNCHANGED << monitor, videoStatus, ctxDone, polls, lastPoll, callbacks >>
    /\ UNCHANGED << hubVars, hookVars >>

\* `case <-ctx.Done()`
MonitorCancelled ==
    /\ monitor = "select" /\ ctxDone
    /\ monitor' = "cancelled"
    /\ UNCHANGED << videoStatus, ctxDone, timedOut, polls, lastPoll, callbacks >>
    /\ UNCHANGED << hubVars, hookVars >>

\* `case <-timeout`
MonitorTimeout ==
    /\ monitor = "select" /\ timedOut
    /\ videoStatus' = MarkFailed
    /\ callbacks' = Append(callbacks, videoStatus')
    /\ monitor' = "timeout"
    /\ UNCHANGED << ctxDone, timedOut, polls, lastPoll >>
    /\ UNCHANGED << hubVars, hookVars >>

\* `case <-ticker.C`: one poll and what follows it.  With the context
\* cancelled the request of PollVideoStatus fails.
MonitorPoll(job) ==
    /\ monitor = "select"
    /\ polls < MaxPolls
    /\ ctxDone => job.err
    /\ polls' = polls + 1
    /\ lastPoll' = job
    /\ IF job.err
       THEN UNCHANGED << monitor, videoStatus, callbacks >>
       ELSE /\ videoStatus' =
                 IF EndsOnCompleted(job)
                 THEN (IF job.stored THEN MarkCompleted ELSE MarkFailed)
                 ELSE IF job.status = "failed" THEN MarkFailed
                 ELSE UpdateProgress(job.status)
            /\ callbacks' = Append(callbacks, videoStatus')
            /\ monitor' = IF EndsOnCompleted(job) THEN "completed"
                          ELSE IF job.status = "failed" THEN "failed"
                          ELSE "select"
    /\ UNCHANGED << ctxDone, timedOut >>
    /\ UNCHANGED << hubVars, hookVars >>

(***************************************************************************)
(* Properties                                                              *)
(***************************************************************************)
Ids(q) == {q[k].id : k \in DOMAIN q}

\* C1: neither Hub.clients nor Hub.conversations has a key mapped to an empty
\* set, whatever register, unregister, broadcast (with its overflow
\* evictions), sweep and shutdown steps were taken.
C1_NoEmptyEntry ==
    /\ \A u \in DOMAIN clients : clients[u] # {}
    /\ \A r \in DOMAIN conversations : conversations[r] # {}

\* a client was unregistered while another stayed, and with it the keys of
\* its identity and of its room went
C1_Witness ==
    \E c, d \in Clients :
        /\ closes[c] = 1 /\ hubPc # "stopped"
        /\ d \in Registered(Hub)
        /\ userID[c] \notin DOMAIN clients
        /\ conversationID[c] # Nil
        /\ conversationID[c] \notin DOMAIN conversations

\* C2: the two tables agree.  A client is in conversations[r] only if r is
\* its own, non-Nil conversationID and it is in clients[its userID]; a client
\* in clients is there under its own userID and, when it has a room, in
\* conversations[its room]; a client with no room is in no conversations set.
C2_TablesAgree ==
    /\ \A r \in DOMAIN conversations : \A c \in conversations[r] :
          /\ r = conversationID[c] /\ r # Nil
          /\ userID[c] \in DOMAIN clients /\ c \in clients[userID[c]]
    /\ \A u \in DOMAIN clients : \A c \in clients[u] :
          /\ u = userID[c]
          /\ conversationID[c] # Nil => /\ conversationID[c] \in DOMAIN conversations
                                        /\ c \in conversations[conversationID[c]]
          /\ conversationID[c] = Nil => c \notin InRooms(Hub)

\* a client without a room and a client with a room are both registered
C2_Witness ==
    \E c, d \in Registered(Hub) :
        /\ conversationID[c] = Nil /\ c \notin InRooms(Hub)
        /\ conversationID[d] # Nil /\ d \in InRooms(Hub)

\* the ids of the messages of q are increasing
Increasing(q) == \A i, j \in DOMAIN q : i < j => q[i].id < q[j].id

\* broadcastMessage returns with this step
BroadcastReturns == hubPc = "broadcast" /\ hubPc' = "select"

\* C3: the events submitted for a room (ids are given in the order of
\* submission) are appended to the queue of each of its members that is not
\* excluded and never found full in that order, each once: the ids a client
\* received are increasing, and when broadcastMessage returns every such
\* member of the room has the message as the last one it received.
C3_OrderedDelivery ==
    [][ /\ \A c \in Clients : Increasing(recv'[c])
        /\ BroadcastReturns =>
              \A c \in conversations[cur.room] \ {cur.excl} :
                  dropped'[c] = {} =>
                      /\ recv'[c] # << >>
                      /\ recv'[c][Len(recv'[c])] = cur ]_vars

\* two clients both received two events, and neither was ever found full
C3_Witness ==
    \E c, d \in Clients :
        /\ c # d
        /\ Len(recv[c]) = 2 /\ dropped[c] = {}
        /\ Len(recv[d]) = 2 /\ dropped[d] = {}

\* C4: a message broadcast with ExcludeClient = X is never appended to the
\* queue of X.
C4_ExcludedNeverReceives ==
    \A c \in Clients :
        /\ \A k \in DOMAIN recv[c] : recv[c][k].excl # c
        /\ \A k \in DOMAIN send[c] : send[c][k].excl # c

\* d received a message that excluded c, while c was a member of the room:
\* c, still registered, had received an earlier message
C4_Witness ==
    \E c, d \in Clients :
        /\ c # d /\ c \in Registered(Hub)
        /\ \E k \in DOMAIN recv[d], j \in DOMAIN recv[c] :
              recv[d][k].excl = c /\ recv[c][j].id < recv[d][k].id

\* C5: broadcastMessage does not wait on a queue.  While it runs nobody is
\* removed from the tables, its next iteration can always be taken, a message
\* is dropped for a client only when its queue is full, and when it returns
\* every member of the room that is not excluded has the message in its queue
\* or had it dropped: the members with room for it have it before a member
\* found full is removed.
C5_NoHeadOfLineBlocking ==
    [][ /\ hubPc = "broadcast" => UNCHANGED << clients, conversations, closes >>
        /\ (hubPc = "broadcast" /\ ~panicked) => ENABLED HubBroadcastStep
        /\ \A c \in Clients :
              dropped'[c] # dropped[c] => Len(send[c]) = sendBufferSize
        /\ BroadcastReturns =>
              \A c \in conversations[cur.room] \ {cur.excl} :
                  cur.id \in Ids(recv'[c]) \cup dropped'[c] ]_vars

\* a message was dropped for c and received by d, and c has been removed
C5_Witness ==
    \E c, d \in Clients :
        /\ c # d /\ hubPc = "select"
        /\ dropped[c] \cap Ids(recv[d]) # {}
        /\ closes[c] = 1 /\ c \notin Registered(Hub)
        /\ d \in Registered(Hub)

\* the hub loop has finished a command with this step
FinishesCommand ==
    \/ Len(register') < Len(register)
    \/ Len(unregister') < Len(unregister)
    \/ Len(broadcast') < Len(broadcast) /\ hubPc' = "select"
    \/ BroadcastReturns
    \/ sweeps' # sweeps

\* C6 (as claimed): a client for which a broadcast dropped a message is out of
\* the tables before the hub loop finishes the next command after that
\* broadcast.
C6_EvictedWithinOneCycle ==
    [][ FinishesCommand =>
          \A c \in Clients :
              dropped[c] \ {cur.id} # {} => c \notin Registered(Hub)' ]_vars

\* C7 (as claimed): once a message was dropped for a client, the hub appends
\* no later message to its queue.
C7_NothingAfterDrop ==
    [][ \A c \in Clients : dropped[c] # {} => recv'[c] = recv[c] ]_vars

\* C8: unregisterClient is idempotent.  In every state of the hub and for
\* every client, registered or not, a second call leaves the tables and the
\* close counts as the first call left them, and no channel is closed twice.
C8_UnregisterIdempotent ==
    \A c \in Clients :
        LET once == unregisterClient(Hub, c)
            twice == unregisterClient(once, c)
        IN  /\ twice = once
            /\ once.closes[c] <= 1
            /\ once.closes[c] = closes[c] + (IF c \in Registered(Hub) THEN 1 ELSE 0)
            /\ c \notin Registered(once) /\ c \notin InRooms(once)

\* unregisterClient ran for a client that it closed, and ran for it again
\* (or before) finding it absent
C8_Witness == \E c \in Clients : closes[c] = 1 /\ noop[c]

\* C9: whatever triggers unregistration of a client (the unregister command
\* of its read pump, the goroutines spawned at an overflow or by a sweep,
\* cleanup at shutdown) and in whatever order they run, its send channel is
\* closed at most once.
C9_ClosedAtMostOnce == \A c \in Clients : closes[c] <= 1

\* for one client a message was dropped (an eviction goroutine was spawned),
\* its read pump's unregister command was processed, every goroutine spawned
\* for it has run, one unregisterClient call found it absent, and the hub has
\* stopped and cleaned up after a sweep
C9_Witness ==
    \E c \in Clients :
        /\ closes[c] = 1 /\ noop[c]
        /\ dropped[c] # {} /\ goUnregister[c] = 0
        /\ readPump[c] = "exited" /\ \A k \in DOMAIN unregister : unregister[k] # c
        /\ sweeps = 1 /\ hubPc = "stopped"

\* C10: a sweep spawns an unregistering goroutine for exactly the registered
\* clients whose age exceeds staleThreshold and itself changes no table, no
\* close count and no queue; when such a goroutine has run, its client is in
\* neither table and its channel has been closed exactly once.
C10_SweepEvictsStale ==
    [][ /\ sweeps' # sweeps =>
              /\ \A c \in Clients :
                    goUnregister'[c] = goUnregister[c] +
                        (IF c \in Registered(Hub) /\ age[c] > staleThreshold
                         THEN 1 ELSE 0)
              /\ UNCHANGED << clients, conversations, closes, send >>
        /\ \A c \in Clients :
              goUnregister'[c] < goUnregister[c] =>
                  /\ c \notin Registered(Hub)' /\ c \notin InRooms(Hub)'
                  /\ closes'[c] = 1 ]_vars

\* with no broadcast and its read pump running, only the sweep can have had c
\* unregistered: c is out and closed, d was not swept and is registered, open
C10_Witness ==
    \E c, d \in Clients :
        /\ sweeps = 1 /\ nextID = 0 /\ hubPc = "select"
        /\ readPump[c] = "running" /\ goUnregister[c] = 0
        /\ closes[c] = 1 /\ c \notin Registered(Hub)
        /\ d \in Registered(Hub) /\ closes[d] = 0 /\ goUnregister[d] = 0

\* the clients whose register command is still in the channel
Unregistered == {register[k] : k \in DOMAIN register}

\* C11: when the hub loop stops (only after Shutdown), cleanup closes the
\* queue of every registered connection and empties both tables; from then
\* on the loop stays stopped, the tables stay empty, and the queue of every
\* connection the hub ever registered has been closed exactly once.  A
\* further Shutdown changes nothing else and raises no panic.
C11_ShutdownStopsAndClears ==
    [][ /\ (hubPc # "stopped" /\ hubPc' = "stopped") =>
              /\ hubCtxDone
              /\ \A c \in Registered(Hub) : closes'[c] = 1
        /\ hubPc = "stopped" => hubPc' = "stopped"
        /\ hubPc' = "stopped" =>
              /\ clients' = EmptyMap /\ conversations' = EmptyMap
              /\ \A c \in Clients :
                    /\ closes'[c] <= 1
                    /\ (readPump'[c] # "new" /\ c \notin Unregistered') =>
                          closes'[c] = 1
        /\ (hubCtxDone /\ shutdowns' # shutdowns) =>
              /\ ~panicked'
              /\ UNCHANGED << clients, conversations, closes, send, hubPc,
                              hubCtxDone, register, unregister, broadcast,
                              goUnregister >> ]_vars

\* Shutdown was called twice and the loop stopped with both clients
\* registered: nothing but cleanup closed their queues
C11_Witness ==
    /\ shutdowns = 2 /\ hubPc = "stopped" /\ ~panicked
    /\ \A c \in Clients :
          /\ closes[c] = 1 /\ ~noop[c] /\ readPump[c] = "running"
          /\ goUnregister[c] = 0 /\ dropped[c] = {}

\* C12 (as claimed): once the loop has stopped, register, unregister,
\* broadcast and direct calls are no-ops that return without blocking: the
\* tables do not change, the hub appends to no queue, BroadcastToUser finds
\* nobody, and each of the three channels has room for the next call.
C12_NoopsAfterShutdown ==
    [][ hubPc = "stopped" =>
          /\ UNCHANGED << clients, conversations, recv >>
          /\ directTodo' = {}
          /\ Len(register') < registerBufferSize
          /\ Len(unregister') < unregisterBufferSize
          /\ Len(broadcast') < broadcastBufferSize ]_vars

\* C13 (as claimed): the loop stops only when the unregister commands
\* submitted before have been processed.
C13_DrainsBeforeStop ==
    [][ (hubPc # "stopped" /\ hubPc' = "stopped") => unregister = << >> ]_vars

\* C14 (as claimed): the deferred function of every read pump submits the
\* unregister command and calls HandleDisconnect, never skipped: a read pump
\* that is reading is never left without a way to complete its exit, its
\* send on Hub.unregister blocked with nobody to receive from the channel.
C14_DisconnectNeverSkipped ==
    \A c \in Clients :
        (readPump[c] = "running" /\ sending[c] = NoMessage) =>
            (Len(unregister) < unregisterBufferSize \/ hubPc # "stopped")

\* C15 (as claimed): a connection whose read pump has exited and for which
\* no command is left in the hub's channels is in neither table.
C15_GoneAfterDisconnect ==
    \A c \in Clients :
        (/\ readPump[c] = "exited"
         /\ c \notin Unregistered
         /\ \A k \in DOMAIN unregister : unregister[k] # c) =>
            (c \notin Registered(Hub) /\ c \notin InRooms(Hub))

\* C16 (as claimed): BroadcastToUser enqueues or drops as broadcastMessage
\* does.  The connection an iteration visits is a registered connection of
\* the target user; with room the event is appended to its queue, and with a
\* full queue the event is dropped and the eviction of the connection is
\* spawned; the queue of no other connection gets the event.
C16_DirectEnqueueOrEvict ==
    [][ \A c \in Clients :
          IF c \in directTodo \ directTodo'
          THEN /\ c \in Registered(Hub) /\ userID[c] = directMsg.user
               /\ IF Len(send[c]) < sendBufferSize
                  THEN send'[c] = Append(send[c], directMsg)
                  ELSE /\ send'[c] = send[c]
                       /\ goUnregister'[c] = goUnregister[c] + 1
          ELSE \/ Len(send'[c]) <= Len(send[c])
               \/ send'[c][Len(send'[c])].type # "direct" ]_vars

\* C17 (as claimed): no producer waits on a connection's queue: the queue
\* never holds more than sendBufferSize events and no SendMessage is left
\* waiting for room.
C17_EnqueueNeverWaits ==
    \A c \in Clients :
        /\ Len(send[c]) <= sendBufferSize
        /\ sending[c] = NoMessage

\* the read pump of c is sending msg to c itself: it is in the queue, or
\* SendMessage waits for room
SendsToSelf(c, msg) ==
    \/ send'[c] = Append(send[c], msg) /\ sending'[c] = NoMessage
    \/ send'[c] = send[c] /\ sending'[c] = msg

\* C18 (as claimed): a frame that does not decode or has an unknown type
\* makes the read pump send one error event to its own connection and to no
\* other (when its queue has not been closed), without a call of the router;
\* no goroutine panics, the connection stays as it is in the tables, and the
\* pump reads on.
C18_InvalidFrameRecoverable ==
    [][ \A c \in Clients :
          ReadPumpFrame(c, "invalid") =>
              /\ ~panicked'
              /\ closes[c] = 0 => SendsToSelf(c, ErrorEvent(c))
              /\ \A d \in Clients \ {c} : send'[d] = send[d]
              /\ UNCHANGED << routed, broadcast, nextID >>
              /\ UNCHANGED << clients, conversations, closes, readPump >> ]_vars

\* C19 (as claimed): a router call that fails (an error, or its context
\* expired) makes the read pump send an error event to its own connection
\* (when its queue has not been closed) and to no other; no goroutine
\* panics, the pump does not exit, and the hub loop, its tables and its
\* channels are as before.
C19_RouterFailureReported ==
    [][ \A c \in Clients :
          ReadPumpFrame(c, "failed") =>
              /\ ~panicked'
              /\ closes[c] = 0 => SendsToSelf(c, ErrorEvent(c))
              /\ \A d \in Clients \ {c} : send'[d] = send[d]
              /\ readPump'[c] = "running"
              /\ UNCHANGED << hubPc, clients, conversations, closes,
                              register, unregister, broadcast >> ]_vars

\* C20 (as claimed): every frame the read pump receives and every pong
\* resets the read deadline to now + pongWait; a pump whose deadline has
\* expired receives nothing more, and when it leaves its loop it has
\* submitted its unregister command.
C20_DeadlineRefreshed ==
    [][ \A c \in Clients :
          /\ (\E frame \in Frames : ReadPumpFrame(c, frame)) =>
                sinceDeadline'[c] = 0
          /\ ReadPumpActivity(c) => sinceDeadline'[c] = 0
          /\ (sinceDeadline[c] = pongWait /\ sending[c] = NoMessage) =>
                /\ sending'[c] = NoMessage
                /\ Len(send'[c]) <= Len(send[c])
                /\ readPump'[c] # readPump[c] =>
                      /\ readPump'[c] = "exited"
                      /\ unregister' = Append(unregister, c) ]_vars

\* C21: a connection that stays idle and whose peer answers every ping is
\* never closed by the read deadline and never evicted by the sweep: its
\* deadline has not expired, it is not stale, no eviction waits for it, its
\* queue is open, and once registered it stays in the tables.
C21_IdleConnectionKept ==
    \A c \in Clients :
        readPump[c] = "running" =>
            /\ sinceDeadline[c] < pongWait
            /\ age[c] <= staleThreshold
            /\ c \notin staleClients(Hub, age)
            /\ goUnregister[c] = 0 /\ closes[c] = 0
            /\ (c \in Unregistered \/ c \in Registered(Hub))

\* both connections have been idle for longer than staleThreshold and
\* pongWait together, and the sweep has run meanwhile
C21_Witness ==
    /\ now = MaxTime /\ sweeps = MaxSweeps
    /\ \A c \in Clients : c \in Registered(Hub) /\ readPump[c] = "running"
    /\ \E c \in Clients : age[c] = pingPeriod

\* how WritePump has returned
Returned == {"closed", "failed", "done"}

\* C22: the write pump returns on a closed queue only once the queue is
\* closed and empty (the close frame is then written), and on a write or
\* ping error; each return closes the connection; a pump that has returned
\* stays so and attempts no further write: it receives nothing from the queue
\* and writes no ping.  A pump in its select whose queue is closed and empty
\* can return.
C22_WritePumpExits ==
    [][\A c \in Clients :
          /\ (writePump[c] = "select" /\ writePump'[c] = "closed") =>
                closes[c] > 0 /\ send[c] = << >> /\ connClosed'[c]
          /\ (writePump[c] = "select" /\ writePump'[c] = "failed") =>
                connClosed'[c]
          /\ writePump[c] \in Returned =>
                /\ writePump'[c] = writePump[c]
                /\ connClosed[c] /\ connClosed'[c]
                /\ Len(send'[c]) >= Len(send[c])
                /\ pings'[c] <= pings[c]
          /\ (writePump[c] = "select" /\ closes[c] > 0 /\ send[c] = << >>
                /\ ~panicked) => ENABLED WritePumpClosed(c)
      ]_vars

\* one pump returned on its closed queue, the other on a failed ping while
\* its queue was open
C22_Witness ==
    \E c, d \in Clients :
        /\ writePump[c] = "closed" /\ closes[c] = 1
        /\ writePump[d] = "failed" /\ closes[d] = 0 /\ sincePing[d] = pingPeriod

\* a pump of c has returned, or its connection was closed
Leaving(c) == readPump[c] = "exited" \/ writePump[c] \in Returned \/ connClosed[c]

\* both pumps of c have returned, c is in neither table and its queue is closed
Gone(c) ==
    /\ readPump[c] = "exited" /\ writePump[c] \in Returned
    /\ c \notin Registered(Hub) /\ c \notin InRooms(Hub)
    /\ closes[c] = 1

\* c was registered after its unregister command was processed, and the one
\* sweep of the run is over: the next sweep, which would find it, lies
\* beyond the bounds
BeyondSweeps(c) ==
    /\ sweeps = MaxSweeps /\ goUnregister[c] = 0
    /\ readPump[c] = "exited" /\ writePump[c] \in Returned
    /\ c \in Registered(Hub)
    /\ \A k \in DOMAIN unregister : unregister[k] # c

CommandLoopStep ==
    /\ hubPc = "select"
    /\ \/ Len(register') < Len(register)
       \/ Len(unregister') < Len(unregister)
       \/ hubPc' = "stopped"

\* C24: every step that changes a table is a step of the hub's command loop
\* processing a queued command (or returning); no other goroutine changes
\* the tables.
C24_OnlyCommandLoopMutates ==
    [][(clients' # clients \/ conversations' # conversations) => CommandLoopStep]_vars

\* a step of the range loop of broadcastMessage or of BroadcastToUser
DeliveryStep == todo' # todo \/ directTodo' # directTodo

\* C25: while broadcastMessage or BroadcastToUser is delivering an event no
\* table and no queue's open/closed state changes; the connections still to
\* be visited are registered members of the room (connections of the user)
\* with an open queue; and a delivery step appends only to the open queue of
\* a registered connection and never panics on a closed one.
C25_MembershipAtomic ==
    [][/\ (hubPc = "broadcast" \/ directTodo # {}) =>
            /\ clients' = clients /\ conversations' = conversations
            /\ closes' = closes
       /\ hubPc = "broadcast" =>
            /\ cur.room \in DOMAIN conversations
            /\ todo \subseteq conversations[cur.room]
       /\ directTodo # {} =>
            /\ directMsg.user \in DOMAIN clients
            /\ directTodo \subseteq clients[directMsg.user]
       /\ \A c \in todo \cup directTodo : c \in Registered(Hub) /\ closes[c] = 0
       /\ DeliveryStep =>
            /\ panicked' = panicked
            /\ \A c \in Clients :
                 send'[c] # send[c] => c \in Registered(Hub) /\ closes[c] = 0
      ]_vars

\* a delivery is under way to a connection whose unregister command, or whose
\* eviction, waits for it to end
C25_Witness ==
    \E c \in todo \cup directTodo :
        /\ unregister = << c >> \/ goUnregister[c] > 0
        /\ readPump[c] = "exited" \/ dropped[c] # {}

\* C26: a connection whose register command has not been processed has
\* received nothing, and processing the command enqueues nothing (no
\* backfill); the hub appends to a queue only the broadcast it is processing,
\* and only for a current member of its room; a broadcast that is taken up
\* ranges over every registered member of its room, and each member visited
\* that is not excluded and whose queue has room gets the event.
C26_NoBackfillThenEvery ==
    [][/\ \A c \in Clients :
            /\ (readPump[c] = "new" \/ c \in Unregistered) => recv[c] = << >>
            /\ recv'[c] # recv[c] =>
                 /\ hubPc = "broadcast" /\ recv'[c] = Append(recv[c], cur)
                 /\ cur.room \in DOMAIN conversations
                 /\ c \in conversations[cur.room] /\ c \notin Unregistered
       /\ Len(register') < Len(register) => recv' = recv /\ send' = send
       /\ (Len(broadcast') < Len(broadcast) /\ Head(broadcast).ok) =>
            \A c \in Registered(Hub) :
                (conversationID[c] # Nil /\ conversationID[c] = Head(broadcast).room)
                    => c \in todo'
       /\ hubPc = "broadcast" =>
            /\ todo' \subseteq todo
            /\ \A c \in todo \ todo' :
                 /\ todo' = todo \ {c}
                 /\ (c # cur.excl /\ Len(send[c]) < sendBufferSize) =>
                       /\ recv'[c] = Append(recv[c], cur)
                       /\ send'[c] = Append(send[c], cur)
      ]_vars

\* two members of one room: c received both broadcasts, d, registered after
\* the first was processed, only the second
C26_Witness ==
    \E c, d \in Clients :
        /\ conversationID[c] = conversationID[d]
        /\ {c, d} \subseteq Registered(Hub)
        /\ Len(recv[c]) = 2 /\ recv[c][1].excl = NoClient
        /\ Ids(recv[d]) = {2} /\ dropped[d] = {} /\ noop[d] = FALSE

\* the events of the assistant's response in q
StreamOf(q) == SelectSeq(q, LAMBDA m : m.msg = AssistantMessageID)

IsPrefix(q, r) == Len(q) <= Len(r) /\ \A i \in DOMAIN q : q[i] = r[i]

\* the deltas of the events of q, joined
Concat(q) ==
    LET d == SelectSeq(q, LAMBDA m : m.type = "delta")
    IN  [i \in DOMAIN d |-> d[i].body[1]]

\* c has been a registered member since the stream-start event was processed
\* and no event was dropped for it
Responsive(c) == c \in audience /\ c \in Registered(Hub) /\ dropped[c] = {}

\* C27: the events of one assistant response are, in the order they are
\* produced, one start, then the deltas, then one complete, which is the
\* last, all with the id of the assistant message, the content of the
\* complete event being the deltas joined; every responsive registered
\* member has received exactly the produced events the hub has processed,
\* in that order.
C27_StreamInOrder ==
    /\ \A i \in DOMAIN produced :
        /\ produced[i].msg = AssistantMessageID
        /\ produced[i].type = "start" <=> i = 1
        /\ produced[i].type \in {"start", "delta", "complete"}
        /\ produced[i].type = "complete" =>
             /\ i = Len(produced)
             /\ produced[i].body = Concat(produced)
             /\ produced[i].body = Words
    /\ \A c \in Clients :
        Responsive(c) =>
            /\ IsPrefix(StreamOf(recv[c]), produced)
            /\ Len(StreamOf(recv[c])) =
                    Len(produced) - Len(StreamOf(broadcast))
                    - (IF cur.msg = AssistantMessageID /\ c \in todo THEN 1 ELSE 0)

\* both members of the room have received the whole response
C27_Witness ==
    /\ Cardinality(audience) = 2
    /\ \A c \in audience :
        /\ Responsive(c)
        /\ StreamOf(recv[c]) = produced
    /\ Len(produced) = Len(Words) + 2 /\ stream.pc = "done"

\* C28: when the hub takes up a broadcast that json.Marshal rejects, the
\* command is dropped: no queue and no table changes, no queue is closed, no
\* eviction is spawned, nothing panics, and the loop is back at its select.
C28_UnserializableDropped ==
    [][(broadcast # << >> /\ Len(broadcast') < Len(broadcast)
            /\ ~Head(broadcast).ok) =>
          /\ send' = send /\ recv' = recv /\ dropped' = dropped
          /\ clients' = clients /\ conversations' = conversations
          /\ closes' = closes /\ goUnregister' = goUnregister
          /\ register' = register /\ unregister' = unregister
          /\ broadcast' = Tail(broadcast)
          /\ hubPc' = "select" /\ todo' = {} /\ ~panicked'
      ]_vars

\* the first broadcast was rejected; the hub then took up the second and
\* delivered it to c
C28_Witness ==
    \E c \in Clients :
        /\ unmarshalled = {1}
        /\ Ids(recv[c]) = {2} /\ dropped[c] = {}
        /\ c \in Registered(Hub) /\ hubPc = "select"

\* ReadMessage returns an error for c (a frame above maxMessageSize, a
\* transport error) and ReadPump returns
ReadError(c) == readPump[c] = "running" /\ readPump'[c] = "exited"

\* C29 (as claimed): a read error of c is fatal for c only.  The pump returns
\* without calling the router (nothing is routed or broadcast), closes the
\* connection and submits the unregister command, and the step changes no
\* table and nothing of another connection; when the hub takes up the
\* command c is in neither table afterwards and no other connection's
\* registration or queue changes; and once no command of c is left in the
\* hub's channels, c is unregistered.
C29_ReadErrorFatalForOne ==
    [][\A c \in Clients :
          /\ ReadError(c) =>
                /\ routed' = routed /\ broadcast' = broadcast /\ nextID' = nextID
                /\ connClosed'[c] /\ unregister' = Append(unregister, c)
                /\ clients' = clients /\ conversations' = conversations
                /\ send' = send /\ closes' = closes
                /\ \A d \in Clients \ {c} :
                     readPump'[d] = readPump[d] /\ connClosed'[d] = connClosed[d]
          /\ (unregister # << >> /\ Head(unregister) = c
                /\ Len(unregister') < Len(unregister)) =>
                /\ c \notin Registered(Hub)' /\ c \notin InRooms(Hub)'
                /\ send' = send
                /\ \A d \in Clients \ {c} :
                     /\ closes'[d] = closes[d]
                     /\ d \in Registered(Hub) <=> d \in Registered(Hub)'
                     /\ d \in InRooms(Hub) <=> d \in InRooms(Hub)'
          /\ (/\ readPump[c] = "exited"
              /\ c \notin Unregistered
              /\ \A k \in DOMAIN unregister : unregister[k] # c) =>
                c \notin Registered(Hub)
      ]_vars

\* C30: taking up a broadcast changes no queue and no table, and when its
\* room has no entry nothing else either (the loop is back at its select with
\* no eviction spawned); an iteration of the range loop changes no table,
\* closes no queue, and changes the queue only of a connection registered in
\* the room of the broadcast.
C30_OnlyRoomQueuesChange ==
    [][/\ (broadcast # << >> /\ Len(broadcast') < Len(broadcast)) =>
            /\ send' = send /\ recv' = recv /\ closes' = closes
            /\ clients' = clients /\ conversations' = conversations
            /\ Head(broadcast).room \notin DOMAIN conversations =>
                 /\ hubPc' = "select" /\ todo' = {}
                 /\ dropped' = dropped /\ goUnregister' = goUnregister
       /\ (hubPc = "broadcast" /\ todo' # todo) =>
            /\ clients' = clients /\ conversations' = conversations
            /\ closes' = closes
            /\ \A c \in Clients :
                 (send'[c] # send[c] \/ recv'[c] # recv[c]) =>
                     /\ cur.room # Nil /\ conversationID[c] = cur.room
                     /\ cur.room \in DOMAIN conversations
                     /\ c \in conversations[cur.room]
                     /\ c \in Registered(Hub)
      ]_vars

\* c, in room 1, has received a broadcast while d was registered in another
\* room or in none: d has received nothing
C30_Witness ==
    \E c, d \in Clients :
        /\ {c, d} \subseteq Registered(Hub)
        /\ conversationID[c] # conversationID[d]
        /\ noop[c] = FALSE /\ noop[d] = FALSE
        /\ Len(recv[c]) = 2 /\ recv[d] = << >> /\ dropped[d] = {}
        /\ recv[c][1].excl = NoClient /\ recv[c][2].excl = NoClient

\* no two items of q are the same broadcast
Once(q) == \A i, j \in DOMAIN q : i # j => q[i].id # q[j].id

\* the items the coalescing loop of c has taken so far
Coalesced(c) == Tail(writer[c].buf)

ReplySend(c) ==
    \/ \E frame \in Frames : ReadPumpFrame(c, frame)
    \/ SendMessageProceeds(c)

\* C32: no producer attempts to enqueue onto a queue that has been closed:
\* no step is the read pump of a connection sending a reply on its queue
\* after the hub closed it.
C32_NoSendAfterClose ==
    [][ \A c \in Clients : closes[c] > 0 => ~ReplySend(c) ]_vars

\* C33: the hub processes the register command of a connection before its
\* unregister command (HandleWebSocket submits the register command before
\* it starts the read pump, whose exit submits the other): when the loop
\* takes the unregister command of c, no register command of c is waiting.
C33_RegisterBeforeUnregister ==
    [][ \A c \in Clients :
          (/\ unregister # << >> /\ Head(unregister) = c
           /\ unregister' = Tail(unregister)) =>
              \A k \in DOMAIN register : register[k] # c ]_vars

\* the commands waiting in the hub's channels
Registering(c) == \E k \in DOMAIN register : register[k] = c
Unregistering(c) == \E k \in DOMAIN unregister : unregister[k] = c
Broadcasting(i) == \E k \in DOMAIN broadcast : broadcast[k].id = i

\* C34: while the hub is not shut down nothing deadlocks on the hub lock and
\* every submitted command is processed: a read lock that is held is
\* released, a spawned unregisterClient gets the lock and runs, and every
\* register, unregister and broadcast command leaves its channel.
C34_CommandsProcessed ==
    /\ ReadLocked ~> ~ReadLocked
    /\ \A c \in Clients :
        /\ goUnregister[c] > 0 ~> goUnregister[c] = 0
        /\ Registering(c) ~> ~Registering(c)
        /\ Unregistering(c) ~> ~Unregistering(c)
    /\ \A i \in 1..MaxBroadcasts : Broadcasting(i) ~> ~Broadcasting(i)

\* the rooms a connection can be in
Rooms == UNION {ConversationIDs(c) : c \in Clients} \ {Nil}

\* the registered connections of user u, and those in room r
ConnectionsOf(u) == {c \in Registered(Hub) : userID[c] = u}
ConnectionsIn(r) == {c \in Registered(Hub) : conversationID[c] = r}

\* C35: the introspection queries agree with the tables in every state:
\* IsUserConnected(u) exactly when a registered connection has identity u,
\* GetConversationClientCount(r) is the number of registered connections in
\* room r, and GetStats counts the registered connections, their identities
\* and the rooms with a member.
C35_QueriesAgree ==
    /\ \A u \in Users : IsUserConnected(Hub, u) <=> ConnectionsOf(u) # {}
    /\ \A r \in Rooms :
          GetConversationClientCount(Hub, r) = Cardinality(ConnectionsIn(r))
    /\ GetStats(Hub).total_clients = Cardinality(Registered(Hub))
    /\ GetStats(Hub).unique_users =
          Cardinality({userID[c] : c \in Registered(Hub)})
    /\ GetStats(Hub).active_conversations =
          Cardinality({r \in Rooms : ConnectionsIn(r) # {}})

\* two users are connected, both in room 1, and room 2 is empty
C35_Witness ==
    /\ IsUserConnected(Hub, 1) /\ IsUserConnected(Hub, 2)
    /\ GetConversationClientCount(Hub, 1) = 2
    /\ GetConversationClientCount(Hub, 2) = 0
    /\ GetStats(Hub) = [total_clients |-> 2, unique_users |-> 2,
                         active_conversations |-> 1]

\* C36: after disconnect() the browser client makes no further connection
\* attempt: the close event of a socket that disconnect() closed sets no
\* reconnect timer, and no socket is made while the application has not
\* asked for a connection again.
C36_NoReconnectAfterDisconnect ==
    [][ /\ \A s \in closedByDisconnect :
              (readyState[s] # "CLOSED" /\ readyState'[s] = "CLOSED") =>
                  timers' = timers
        /\ disconnected' => Created' = Created ]_vars

\* C37: reconnection is bounded: at most MAX_RECONNECT_ATTEMPTS reconnects
\* are scheduled without a successful open in between, the k-th after k
\* times RECONNECT_INTERVAL, and the attempt counter counts them: it is 0
\* after every open.
C37_ReconnectBounded ==
    /\ Len(scheduled) <= MAX_RECONNECT_ATTEMPTS
    /\ \A k \in DOMAIN scheduled : scheduled[k] = k * RECONNECT_INTERVAL
    /\ reconnectAttemptsRef = Len(scheduled)

\* after an open the connection was lost and five reconnects in a row have
\* failed: the close event of the last one has scheduled nothing
C37_Witness ==
    /\ opened # {}
    /\ Len(scheduled) = MAX_RECONNECT_ATTEMPTS
    /\ \A t \in DOMAIN timers : ~timers[t].pending
    /\ \A s \in Sockets : readyState[s] = "CLOSED"

\* the messages of the entries of q
MessagesOf(q) == [k \in DOMAIN q |-> q[k].message]

\* message m has been queued
WasQueued(m) == \E k \in DOMAIN queuedLog : queuedLog[k] = m

\* the queued messages that have been sent, in the order of the ws.send calls
QueuedSent == SelectSeq(MessagesOf(sentLog), WasQueued)

\* q holds its messages in the order of the sendMessage calls
InCallOrder(q) == \A i, j \in DOMAIN q : i < j => q[i].message < q[j].message

\* C38: a message passed to sendMessage while the socket of wsRef is not open
\* is queued; the open event of a socket sends the whole queue in order; the
\* queued messages are sent once each, in the order they were queued (none
\* lost, none twice), and all messages are sent in the order of the
\* sendMessage calls, so a queued message is never sent after a later one.
C38_QueueFlushedInOrder ==
    [][ /\ QueuedSent' \o messageQueueRef' = queuedLog'
        /\ InCallOrder(sentLog')
        /\ (nextMessage' # nextMessage /\ ~IsOpen(wsRef)) =>
              messageQueueRef' = Append(messageQueueRef, nextMessage')
        /\ \A s \in Sockets :
              (readyState[s] = "CONNECTING" /\ readyState'[s] = "OPEN") =>
                  /\ messageQueueRef' = << >>
                  /\ MessagesOf(sentLog') = MessagesOf(sentLog) \o messageQueueRef ]_vars

\* two messages were queued, the first sent on one socket, the second on a
\* later one after the first connection was lost
C38_Witness ==
    /\ queuedLog = << 1, 2 >> /\ messageQueueRef = << >>
    /\ MessagesOf(sentLog) = << 1, 2 >>
    /\ sentLog[1].socket < sentLog[2].socket
    /\ readyState[sentLog[1].socket] = "CLOSED"

\* MonitorVideoGeneration has returned, and not for a cancelled context
ReturnedResult == monitor \in {"timeout", "failed", "completed"}

\* the updateCallback calls that passed status
CallsWith(status) == {k \in DOMAIN callbacks : callbacks[k] = status}

Connections ==
    \/ \E c \in Clients : Admit(c)
    \/ \E c \in Clients :
          (closes[c] > 0 \/ CanSend(send[c])) /\ ReadPumpFrame(c, "ping")
    \/ \E c \in Clients : ReadPumpExit(c)
    \/ \E c \in Clients : WritePumpRecv(c)

HubLoop ==
    \/ HubRegister
    \/ HubUnregister
    \/ HubBroadcast
    \/ HubBroadcastStep
    \/ HubStop
    \/ ~hubCtxDone /\ Shutdown
    \/ \E c \in Clients : GoUnregister(c)

Next ==
    \/ Connections
    \/ HubLoop
    \/ \E c \in Clients : \E ex \in {NoClient, c} :
          BroadcastToConversation(c, ex, TRUE)

Spec == Init /\ [][Next]_vars

(***************************************************************************)
(* SpecSweep: the clock runs and the cleanup ticker fires.                 *)
(***************************************************************************)
NextSweep ==
    \/ Connections
    \/ HubLoop
    \/ \E c \in Clients :
          nextID < MaxClockBroadcasts /\ BroadcastToConversation(c, NoClient, TRUE)
    \/ \E c \in Clients : ReadPumpActivity(c)
    \/ HubSweep
    \/ Tick

SpecSweep == Init /\ [][NextSweep]_vars

(***************************************************************************)
(* SpecStop: as Spec, with Shutdown called again.                          *)
(***************************************************************************)
NextStop ==
    \/ Next
    \/ Shutdown

SpecStop == Init /\ [][NextStop]_vars

(***************************************************************************)
(* SpecPump: the read pump with every frame it answers, the waits of       *)
(* SendMessage and the read deadline, beside a hub that registers,         *)
(* unregisters and shuts down.                                             *)
(***************************************************************************)
NextPump ==
    \/ \E c \in Clients : Admit(c)
    \/ \E c \in Clients, frame \in Frames : ReadPumpFrame(c, frame)
    \/ \E c \in Clients : SendMessageProceeds(c)
    \/ \E c \in Clients : SendMessageTimeout(c)
    \/ \E c \in Clients : ReadPumpActivity(c)
    \/ \E c \in Clients : ReadPumpExit(c)
    \/ \E c \in Clients : WritePumpRecv(c)
    \/ ReadTick
    \/ HubRegister
    \/ HubUnregister
    \/ HubStop
    \/ ~hubCtxDone /\ Shutdown

SpecPump == Init /\ [][NextPump]_vars

(***************************************************************************)
(* SpecDirect: BroadcastToUser beside the hub loop and one broadcast.      *)
(***************************************************************************)
NextDirect ==
    \/ Connections
    \/ HubRegister
    \/ HubUnregister
    \/ HubBroadcast
    \/ HubBroadcastStep
    \/ \E c \in Clients : GoUnregister(c)
    \/ \E c \in Clients :
          nextID < MaxClockBroadcasts /\ BroadcastToConversation(c, NoClient, TRUE)
    \/ \E u \in Users : BroadcastToUser(u)
    \/ BroadcastToUserStep

SpecDirect == Init /\ [][NextDirect]_vars

(***************************************************************************)
(* SpecIdle: idle connections under the fine clock.  Their peers answer    *)
(* every ping; the sweep runs once, after more than staleThreshold.        *)
(***************************************************************************)
NextIdle ==
    \/ \E c \in Clients :
        \/ Admit(c)
        \/ WritePumpPing(c)
        \/ pings[c] > 0 /\ ReadPumpActivity(c)
    \/ HubRegister
    \/ now > staleThreshold /\ HubSweep
    \/ ClockStep

SpecIdle == Init /\ [][NextIdle]_vars

(***************************************************************************)
(* SpecWrite: the write pump with its returns, beside the read pump, the   *)
(* hub loop and shutdown.  The fine clock starts when both connections are *)
(* admitted and runs up to the first ping; the frames of the peers arrive  *)
(* before its first unit has passed.                                       *)
(***************************************************************************)
NextWrite ==
    \/ \E c \in Clients :
        \/ Admit(c)
        \/ /\ now = 0
           /\ closes[c] > 0 \/ CanSend(send[c])
           /\ ReadPumpFrame(c, "ping")
        \/ ReadPumpExit(c)
        \/ WritePumpRecv(c)
        \/ WritePumpClosed(c)
        \/ \E what \in Writes : WritePumpFails(c, what)
        \/ WritePumpDone(c)
        \/ WritePumpPing(c)
        \/ pings[c] > 0 /\ ReadPumpActivity(c)
    \/ HubRegister
    \/ HubUnregister
    \/ HubStop
    \/ ~hubCtxDone /\ Shutdown
    \/ /\ now < pingPeriod
       /\ \A c \in Clients : readPump[c] # "new"
       /\ ClockStep

SpecWrite == Init /\ [][NextWrite]_vars

(***************************************************************************)
(* SpecLive: both pumps with their returns, Client.Close, the hub loop,    *)
(* the clock and the sweep.  The Go scheduler runs every goroutine that    *)
(* can run: the hub loop takes a ready case, a spawned unregisterClient    *)
(* runs, a pump whose connection is closed returns, time passes, and the   *)
(* cleanup ticker fires (a sweep that finds nobody stale changes nothing   *)
(* and is left out).                                                       *)
(***************************************************************************)
ProductiveSweep == staleClients(Hub, age) # {} /\ HubSweep

ForcedReadPumpExit(c) == connClosed[c] /\ ReadPumpExit(c)

NextLive ==
    \/ \E c \in Clients :
        \/ Admit(c)
        \/ (closes[c] > 0 \/ CanSend(send[c])) /\ ReadPumpFrame(c, "ping")
        \/ ReadPumpExit(c)
        \/ WritePumpRecv(c)
        \/ WritePumpClosed(c)
        \/ WritePumpFails(c, "message")
        \/ WritePumpDone(c)
        \/ Close(c)
        \/ GoUnregister(c)
    \/ HubRegister
    \/ HubUnregister
    \/ ProductiveSweep
    \/ Tick

Fairness ==
    /\ WF_vars(HubRegister)
    /\ WF_vars(HubUnregister)
    /\ WF_vars(ProductiveSweep)
    /\ WF_vars(Tick)
    /\ \A c \in Clients :
        /\ WF_vars(GoUnregister(c))
        /\ WF_vars(ForcedReadPumpExit(c))
        /\ WF_vars(WritePumpDone(c))

SpecLive == Init /\ [][NextLive]_vars /\ Fairness

(***************************************************************************)
(* SpecStream: one message frame and the assistant response it starts,     *)
(* beside the hub loop and the pumps.                                      *)
(***************************************************************************)
NextStream ==
    \/ \E c \in Clients :
        \/ Admit(c)
        \/ HandleMessage(c)
        \/ ReadPumpExit(c)
        \/ WritePumpRecv(c)
        \/ GoUnregister(c)
    \/ \E created \in BOOLEAN : GenerateAIResponseCreate(created)
    \/ GenerateAIResponseStep
    \/ HubRegister
    \/ HubUnregister
    \/ HubBroadcast
    \/ HubBroadcastStep

SpecStream == Init /\ [][NextStream]_vars

(***************************************************************************)
(* SpecMarshal: as Spec without shutdown, with broadcasts that json.Marshal *)
(* rejects.                                                                *)
(***************************************************************************)
NextMarshal ==
    \/ Connections
    \/ \E c \in Clients, ok \in BOOLEAN : BroadcastToConversation(c, NoClient, ok)
    \/ HubRegister
    \/ HubUnregister
    \/ HubBroadcast
    \/ HubBroadcastStep
    \/ \E c \in Clients : GoUnregister(c)

SpecMarshal == Init /\ [][NextMarshal]_vars

(***************************************************************************)
(* SpecCoalesce: the write of a message statement by statement, with the   *)
(* hub as the only producer of the queues (the peers send no frame).       *)
(***************************************************************************)
NextCoalesce ==
    \/ \E c \in Clients :
        \/ Admit(c)
        \/ BroadcastToConversation(c, NoClient, TRUE)
        \/ WritePumpWrite(c)
        \/ WritePumpCount(c)
        \/ WritePumpCoalesce(c)
        \/ \E err \in BOOLEAN : WritePumpFlush(c, err)
        \/ WritePumpClosed(c)
        \/ GoUnregister(c)
    \/ HubRegister
    \/ HubBroadcast
    \/ HubBroadcastStep

SpecCoalesce == Init /\ [][NextCoalesce]_vars

(***************************************************************************)
(* SpecFair: the hub loop without shutdown, beside the pumps, the eviction *)
(* goroutines and BroadcastToUser.  The scheduler runs every goroutine     *)
(* that can run.  A goroutine that waits for the                           *)
(* write lock gets it although readers come and go (sync.RWMutex holds new *)
(* readers back while a writer waits), and the select of Run takes every   *)
(* case that is ready again and again: strong fairness for both.           *)
(***************************************************************************)
NextFair ==
    \/ Connections
    \/ HubRegister
    \/ HubUnregister
    \/ HubBroadcast
    \/ HubBroadcastStep
    \/ \E c \in Clients : GoUnregister(c)
    \/ \E c \in Clients :
          nextID < MaxClockBroadcasts /\ BroadcastToConversation(c, NoClient, TRUE)
    \/ \E u \in Users : BroadcastToUser(u)
    \/ BroadcastToUserStep

FairScheduling ==
    /\ SF_vars(HubRegister)
    /\ SF_vars(HubUnregister)
    /\ SF_vars(HubBroadcast)
    /\ WF_vars(HubBroadcastStep)
    /\ WF_vars(BroadcastToUserStep)
    /\ \A c \in Clients : SF_vars(GoUnregister(c))

SpecFair == Init /\ [][NextFair]_vars /\ FairScheduling

(***************************************************************************)
(* SpecReconnect: the browser client left alone: the component mounts,     *)
(* sockets open and close, timers fire.                                    *)
(***************************************************************************)
NextReconnect ==
    \/ Mount
    \/ \E s \in Sockets : onopen(s)
    \/ \E s \in Sockets : onclose(s)
    \/ \E t \in DOMAIN timers : timeout(t)

SpecReconnect == Init /\ [][NextReconnect]_vars

(***************************************************************************)
(* SpecHook: the browser client with its application, which sends          *)
(* messages and disconnects, in runs of up to MaxHookSockets sockets.      *)
(***************************************************************************)
NextHook ==
    \/ Mount
    \/ sendMessage /\ Created' <= MaxHookSockets
    \/ \E unmount \in BOOLEAN : disconnect(unmount)
    \/ \E s \in Sockets : onopen(s)
    \/ \E s \in Sockets : onclose(s)
    \/ \E t \in DOMAIN timers : timeout(t) /\ Created' <= MaxHookSockets

SpecHook == Init /\ [][NextHook]_vars

(***************************************************************************)
(* SpecMonitor: one call of MonitorVideoGeneration, the external job and   *)
(* the caller's context.                                                   *)
(***************************************************************************)
NextMonitor ==
    \/ MonitorStart
    \/ Cancel
    \/ TimePasses
    \/ MonitorCancelled
    \/ MonitorTimeout
    \/ \E job \in PollResults : MonitorPoll(job)

SpecMonitor == Init /\ [][NextMonitor]_vars

====
